---- MODULE Spec2Model ----
(***************************************************************************)
(* tesla-sei: extraction of SEI telemetry records from MP4 containers.     *)
(*                                                                         *)
(* The module models five parts of the crate, each with its own            *)
(* specification over the shared variables:                                *)
(*   Spec        the streaming extractor (open, next, seek_sample,         *)
(*               read_sample_events) over a container and its byte source  *)
(*   SpecTables  open over a family of sample tables (offset               *)
(*               reconstruction)                                           *)
(*   SpecWalk    the box walk of parse_mp4 and the parsers it calls        *)
(*               (read_box_header + safe_box_end); SpecWalkFair adds       *)
(*               weak fairness of its steps                                *)
(*   SpecSei     the SEI scanner and the heuristic payload resolver        *)
(*   SpecStream  the asynchronous stream: worker thread, bounded channel   *)
(*               and consumer                                              *)
(* Byte strings are sequences of integers 0..255.  Rust's 0-based indices  *)
(* are kept in the operators' parameters; At(s, i) reads s[i].             *)
(***************************************************************************)
EXTENDS Integers, Sequences, FiniteSets, TLC

\* ------------------------------------------------------------------ bytes

\* s[i] with the 0-based index of the source
At(s, i) == s[i + 1]

\* &s[a..b] (0-based, b exclusive)
Slice(s, a, b) == SubSeq(s, a + 1, b)

\* &s[a..]
From(s, a) == SubSeq(s, a + 1, Len(s))

Min(a, b) == IF a < b THEN a ELSE b

Max(a, b) == IF a < b THEN b ELSE a

\* ------------------------------------------------ sei.rs: NAL splitting

\* The big-endian length prefix of nal_len_size bytes at sample[i..];
\* -1 stands for the `_ => break` arm (a width outside 1..4).
NalLen(sample, i, n) ==
  CASE n = 1 -> At(sample, i)
    [] n = 2 -> At(sample, i) * 256 + At(sample, i + 1)
    [] n = 3 -> At(sample, i) * 65536 + At(sample, i + 1) * 256 + At(sample, i + 2)
    [] n = 4 -> At(sample, i) * 16777216 + At(sample, i + 1) * 65536
                  + At(sample, i + 2) * 256 + At(sample, i + 3)
    [] OTHER -> -1

RECURSIVE SplitLoop(_, _, _, _)
\* one unit of declared length len whose bytes start at j
SplitStep(sample, n, j, len, out) ==
  IF len = -1 THEN out
  ELSE IF j + len > Len(sample) \/ len = 0 THEN out
  ELSE SplitLoop(sample, n, j + len, Append(out, Slice(sample, j, j + len)))

SplitLoop(sample, n, i, out) ==
  IF i + n > Len(sample) THEN out
  ELSE SplitStep(sample, n, i + n, NalLen(sample, i, n), out)

split_nals_length_prefixed(sample, nal_len_size) ==
  SplitLoop(sample, nal_len_size, 0, <<>>)

\* ------------------------------------- sei.rs: emulation prevention

RECURSIVE EpLoop(_, _, _, _)
\* mutant: only a 0x03 behind exactly two zero bytes is dropped
EpLoop_ExactlyTwo(rbsp, i, zeros, out) ==
  IF i >= Len(rbsp) THEN out
  ELSE LET b == At(rbsp, i)
       IN IF zeros = 2 /\ b = 3
          THEN EpLoop(rbsp, i + 1, 0, out)
          ELSE EpLoop(rbsp, i + 1, IF b = 0 THEN zeros + 1 ELSE 0, Append(out, b))

EpLoop(rbsp, i, zeros, out) ==
  IF i >= Len(rbsp) THEN out
  ELSE LET b == At(rbsp, i)
       IN IF zeros >= 2 /\ b = 3
          THEN EpLoop(rbsp, i + 1, 0, out)
          ELSE EpLoop(rbsp, i + 1, IF b = 0 THEN zeros + 1 ELSE 0, Append(out, b))

remove_emulation_prevention(rbsp) == EpLoop(rbsp, 0, 0, <<>>)

\* ------------------------------------------- sei.rs: SEI message scan

\* The `while i < len && data[i] == 0xFF` loops: the index after the run
RECURSIVE SkipFF(_, _)
SkipFF(data, i) ==
  IF i < Len(data) /\ At(data, i) = 255 THEN SkipFF(data, i + 1) ELSE i

RECURSIVE SeiLoop(_, _, _)
\* the payload of payload_size bytes at i4
SeiPayload(data, payload_type, payload_size, i4, out) ==
  IF i4 + payload_size > Len(data) THEN out
  ELSE IF Len(data) - (i4 + payload_size) <= 1
       THEN Append(out, [typ |-> payload_type,
                         payload |-> Slice(data, i4, i4 + payload_size)])
       ELSE SeiLoop(data, i4 + payload_size,
                    Append(out, [typ |-> payload_type,
                                 payload |-> Slice(data, i4, i4 + payload_size)]))

\* payloadSize: its 0xFF run is data[i2..i3]
SeiSize(data, payload_type, i2, i3, out) ==
  IF i3 >= Len(data) THEN out
  ELSE SeiPayload(data, payload_type, 255 * (i3 - i2) + At(data, i3), i3 + 1, out)

\* mutant: a 0xFF byte of the payload type counts 256
SeiType_Counts256(data, i, i1, out) ==
  IF i1 >= Len(data) THEN out
  ELSE SeiSize(data, 256 * (i1 - i) + At(data, i1), i1 + 1, SkipFF(data, i1 + 1), out)

\* payloadType: its 0xFF run is data[i..i1]
SeiType(data, i, i1, out) ==
  IF i1 >= Len(data) THEN out
  ELSE SeiSize(data, 255 * (i1 - i) + At(data, i1), i1 + 1, SkipFF(data, i1 + 1), out)

SeiLoop(data, i, out) ==
  IF i >= Len(data) THEN out
  ELSE SeiType(data, i, SkipFF(data, i), out)

\* the scan of an already cleaned body (the loop of parse_sei_messages)
ScanSeiMessages(data) == SeiLoop(data, 0, <<>>)

parse_sei_messages(rbsp) == ScanSeiMessages(remove_emulation_prevention(rbsp))

\* ------------------------------------ pb::SeiMetadata::decode (prost)

\* The record the resolver looks at: only the two fields of its guard.
DefaultMsg == [version |-> 0, frame_seq_no |-> 0]

\* A base-128 varint at buf[i..]: [ok, val, next].  It fails when the buffer
\* ends inside the varint or the varint is longer than 10 bytes.
RECURSIVE VarintLoop(_, _, _, _, _)
VarintLoop(buf, i, shift, acc, count) ==
  IF i >= Len(buf) \/ count >= 10 THEN [ok |-> FALSE, val |-> 0, next |-> i]
  ELSE IF At(buf, i) < 128
       THEN [ok |-> TRUE, val |-> acc + At(buf, i) * 2 ^ shift, next |-> i + 1]
       ELSE VarintLoop(buf, i + 1, shift + 7, acc + (At(buf, i) - 128) * 2 ^ shift,
                       count + 1)

DecodeVarint(buf, i) == VarintLoop(buf, i, 0, 0, 0)

\* The wire type the schema gives a field number; -1 for an unknown field.
\* 1 version, 2 gear_state, 3 frame_seq_no, 4..6 floats, 7..9 bools,
\* 10 autopilot_state, 11..16 doubles.
FieldWire(tag) ==
  CASE tag \in {1, 2, 3, 7, 8, 9, 10} -> 0
    [] tag \in {4, 5, 6} -> 5
    [] tag \in 11..16 -> 1
    [] OTHER -> -1

PbBad(i, msg) == [ok |-> FALSE, msg |-> msg, next |-> i]

\* a varint value v merged into field tag
MergeVarint(i, msg, tag, v) ==
  IF ~v.ok THEN PbBad(i, msg)
  ELSE [ok |-> TRUE, next |-> v.next,
        msg |-> CASE tag = 1 -> [msg EXCEPT !.version = v.val]
                  [] tag = 3 -> [msg EXCEPT !.frame_seq_no = v.val]
                  [] OTHER -> msg]

\* a fixed-width value of n bytes at j skipped
SkipFixed(buf, i, msg, j, n) ==
  IF j + n > Len(buf) THEN PbBad(i, msg)
  ELSE [ok |-> TRUE, next |-> j + n, msg |-> msg]

\* a length-delimited value (length varint n) skipped
SkipDelimited(buf, i, msg, n) ==
  IF ~n.ok \/ n.next + n.val > Len(buf) THEN PbBad(i, msg)
  ELSE [ok |-> TRUE, next |-> n.next + n.val, msg |-> msg]

\* the value of the field with wire type wt and number tag, at buf[j..]
PbValue(buf, i, msg, wt, tag, j) ==
  IF wt > 5 \/ tag = 0 THEN PbBad(i, msg)
  ELSE IF FieldWire(tag) # -1 /\ FieldWire(tag) # wt THEN PbBad(i, msg)
  ELSE CASE wt = 0 -> MergeVarint(i, msg, tag, DecodeVarint(buf, j))
         [] wt = 1 -> SkipFixed(buf, i, msg, j, 8)
         [] wt = 5 -> SkipFixed(buf, i, msg, j, 4)
         [] wt = 2 -> SkipDelimited(buf, i, msg, DecodeVarint(buf, j))
         [] OTHER -> PbBad(i, msg)   \* group markers of an unknown field

PbKeyed(buf, i, msg, key) ==
  IF ~key.ok THEN PbBad(i, msg)
  ELSE PbValue(buf, i, msg, key.val % 8, key.val \div 8, key.next)

\* One field at buf[i..] merged into msg: [ok, msg, next].
PbField(buf, i, msg) == PbKeyed(buf, i, msg, DecodeVarint(buf, i))

RECURSIVE PbLoop(_, _, _)
PbStep(buf, f) ==
  IF ~f.ok THEN [ok |-> FALSE, msg |-> DefaultMsg]
  ELSE PbLoop(buf, f.next, f.msg)

PbLoop(buf, i, msg) ==
  IF i >= Len(buf) THEN [ok |-> TRUE, msg |-> msg]
  ELSE PbStep(buf, PbField(buf, i, msg))

\* pb::SeiMetadata::decode(attempt): [ok, msg]
PbDecode(buf) == PbLoop(buf, 0, DefaultMsg)

\* ------------------------------- sei.rs: heuristic payload resolver

TypeUserDataUnregistered == 5

ScanWindow == 64

\* `while i < payload.len() && payload[i] == 0x42`
RECURSIVE Skip42(_, _)
Skip42(payload, i) ==
  IF i < Len(payload) /\ At(payload, i) = 66 THEN Skip42(payload, i + 1) ELSE i

\* A candidate is the slice payload[start..start+len], kept as the pair
\* the source compares (pointer, length).
Cand(payload, start) == [start |-> start, len |-> Len(payload) - start]

MarkerAt(payload, i) ==
  IF i > 0 /\ i < Len(payload) /\ At(payload, i) = 105 /\ i + 1 < Len(payload)
  THEN <<Cand(payload, i + 1)>>
  ELSE <<>>

\* candidate (a): the bytes after a run of 0x42 closed by 0x69
MarkerCandidates(payload_type, payload) ==
  IF payload_type = TypeUserDataUnregistered
  THEN MarkerAt(payload, Skip42(payload, 0))
  ELSE <<>>

\* mutant: the UUID is skipped whatever the payload type
UuidCandidates_AnyType(payload_type, payload) ==
  IF Len(payload) > 16
  THEN <<Cand(payload, 16)>>
  ELSE <<>>

\* candidate (b): the bytes after a 16-byte UUID
UuidCandidates(payload_type, payload) ==
  IF payload_type = TypeUserDataUnregistered /\ Len(payload) > 16
  THEN <<Cand(payload, 16)>>
  ELSE <<>>

\* candidate (c): the payload as it is
WholeCandidates(payload) ==
  IF Len(payload) # 0 THEN <<Cand(payload, 0)>> ELSE <<>>

\* candidates (d): every suffix starting at a 0x08 in the scan window
RECURSIVE ScanLoop(_, _, _, _)
ScanLoop(payload, i, scan_len, out) ==
  IF i >= scan_len THEN out
  ELSE ScanLoop(payload, i + 1, scan_len,
                IF At(payload, i) = 8 /\ i + 2 <= Len(payload)
                THEN Append(out, Cand(payload, i))
                ELSE out)

ScanCandidates(payload) ==
  ScanLoop(payload, 0, Min(Len(payload), ScanWindow), <<>>)

\* Vec::dedup_by: an element equal to the one kept just before it is dropped
RECURSIVE DedupLoop(_, _, _)
DedupLoop(cands, i, out) ==
  IF i > Len(cands) THEN out
  ELSE DedupLoop(cands, i + 1,
                 IF Len(out) > 0 /\ out[Len(out)] = cands[i]
                 THEN out
                 ELSE Append(out, cands[i]))

DedupCandidates(cands) == DedupLoop(cands, 1, <<>>)

\* the candidate list as pushed, before duplicate removal
PushedCandidates(payload_type, payload) ==
  MarkerCandidates(payload_type, payload) \o UuidCandidates(payload_type, payload)
    \o WholeCandidates(payload) \o ScanCandidates(payload)

Candidates(payload_type, payload) ==
  DedupCandidates(PushedCandidates(payload_type, payload))

CandBytes(payload, c) == Slice(payload, c.start, c.start + c.len)

\* The decode attempts of one candidate: itself and, when it ends in 0x80
\* and is longer than one byte, itself without that byte.
DecodeAttempts(cand) ==
  IF Len(cand) > 1 /\ At(cand, Len(cand) - 1) = 128
  THEN <<cand, Slice(cand, 0, Len(cand) - 1)>>
  ELSE <<cand>>

NoMsg == [some |-> FALSE, msg |-> DefaultMsg]

\* `return Some(msg)` of the first hit: r, or else what the loop goes on to
FirstSome(r, rest) == IF r.some THEN r ELSE rest

\* mutant: a record is returned whatever its fields
GuardDecoded_NoGuard(d) ==
  IF d.ok THEN [some |-> TRUE, msg |-> d.msg] ELSE NoMsg

\* the false-positive guard on a decode result d
GuardDecoded(d) ==
  IF d.ok /\ ~(d.msg.version = 0 /\ d.msg.frame_seq_no = 0)
  THEN [some |-> TRUE, msg |-> d.msg]
  ELSE NoMsg

TryAttempt(attempt) ==
  IF Len(attempt) = 0 THEN NoMsg ELSE GuardDecoded(PbDecode(attempt))

RECURSIVE AttemptLoop(_, _)
AttemptLoop(attempts, k) ==
  IF k > Len(attempts) THEN NoMsg
  ELSE FirstSome(TryAttempt(attempts[k]), AttemptLoop(attempts, k + 1))

TryCandidate(cand) ==
  IF Len(cand) = 0 THEN NoMsg ELSE AttemptLoop(DecodeAttempts(cand), 1)

RECURSIVE CandLoop(_, _, _)
CandLoop(payload, cands, k) ==
  IF k > Len(cands) THEN NoMsg
  ELSE FirstSome(TryCandidate(CandBytes(payload, cands[k])),
                 CandLoop(payload, cands, k + 1))

\* Option<pb::SeiMetadata> as [some, msg]
try_decode_sei_metadata_from_payload(payload_type, payload) ==
  CandLoop(payload, Candidates(payload_type, payload), 1)

\* --------------------------------------- sei.rs: one sample's records

\* `if let Some(msg) = ... { out.push(msg) }`
PushSome(out, r) == IF r.some THEN Append(out, r.msg) ELSE out

\* The messages of a sequence of scanned SEI messages that resolve, in order
RECURSIVE ResolveAll(_, _, _)
ResolveAll(msgs, k, out) ==
  IF k > Len(msgs) THEN out
  ELSE ResolveAll(msgs, k + 1,
         PushSome(out, try_decode_sei_metadata_from_payload(msgs[k].typ,
                                                             msgs[k].payload)))

\* whether the codec's rule takes the NAL unit for an SEI unit
IsSeiNal(codec, nal) ==
  CASE codec.kind = "Avc" -> At(nal, 0) % 32 = 6
    [] codec.kind = "Hevc" ->
         /\ ~(Len(nal) < 2)
         /\ ~((At(nal, 0) \div 2) % 64 # 39 /\ (At(nal, 0) \div 2) % 64 # 40)
    [] OTHER -> FALSE

\* the NAL unit's body after its header: 1 byte for AVC, 2 for HEVC
NalBody(codec, nal) == From(nal, IF codec.kind = "Avc" THEN 1 ELSE 2)

\* mutant: every codec's NAL units are taken by the AVC rule
NalRecords_AnyCodec(codec, nal) ==
  IF At(nal, 0) % 32 = 6
  THEN ResolveAll(parse_sei_messages(From(nal, 1)), 1, <<>>)
  ELSE <<>>

\* The records of one NAL unit under a codec ([kind, nal_len_size])
NalRecords(codec, nal) ==
  IF IsSeiNal(codec, nal)
  THEN ResolveAll(parse_sei_messages(NalBody(codec, nal)), 1, <<>>)
  ELSE <<>>

RECURSIVE NalLoop(_, _, _, _)
NalLoop(codec, nals, k, out) ==
  IF k > Len(nals) THEN out
  ELSE NalLoop(codec, nals, k + 1,
               IF Len(nals[k]) = 0 THEN out ELSE out \o NalRecords(codec, nals[k]))

CodecNalLenSize(codec) ==
  IF codec.kind \in {"Avc", "Hevc"} THEN codec.nal_len_size ELSE 4

decode_sei_from_sample(codec, sample) ==
  NalLoop(codec, split_nals_length_prefixed(sample, CodecNalLenSize(codec)), 1, <<>>)

\* --------------------------------- mp4.rs: box header and box end

\* Stand-in for u64::MAX, the value saturating arithmetic stops at: every
\* position and limit of the model lies far below it.
WordMax == 1000

SatAdd(a, b) == Min(a + b, WordMax)

SatSub(a, b) == IF a < b THEN 0 ELSE a - b

\* read_box_header: the 32-bit size, the tag and, for size32 = 1, the
\* 64-bit largesize that follows
read_box_header(size32, typ, size64) ==
  IF size32 = 1
  THEN [typ |-> typ, size |-> size64, header_len |-> 16]
  ELSE [typ |-> typ, size |-> size32, header_len |-> 8]

InvalidBox(ctx, start, hdr, message) ==
  [kind |-> "Mp4InvalidBox", context |-> ctx, box_type |-> hdr.typ,
   offset |-> start, message |-> message]

\* mutant: the end is not clamped to the limit
safe_box_end_NoClamp(ctx, start, hdr, limit) ==
  LET size == IF hdr.size = 0 THEN SatSub(limit, start) ELSE hdr.size
      end == SatAdd(start, size)
  IN IF size < hdr.header_len
     THEN [ok |-> FALSE, end |-> 0, err |-> InvalidBox(ctx, start, hdr, "size < header_len")]
     ELSE IF end <= start
     THEN [ok |-> FALSE, end |-> 0, err |-> InvalidBox(ctx, start, hdr, "non-advancing end")]
     ELSE [ok |-> TRUE, end |-> end, err |-> [kind |-> "None"]]

\* mutant: the size is compared with the length of a plain header
safe_box_end_PlainHeader(ctx, start, hdr, limit) ==
  LET size == IF hdr.size = 0 THEN SatSub(limit, start) ELSE hdr.size
      end == Min(SatAdd(start, size), limit)
  IN IF size < 8
     THEN [ok |-> FALSE, end |-> 0, err |-> InvalidBox(ctx, start, hdr, "size < header_len")]
     ELSE IF end <= start
     THEN [ok |-> FALSE, end |-> 0, err |-> InvalidBox(ctx, start, hdr, "non-advancing end")]
     ELSE [ok |-> TRUE, end |-> end, err |-> [kind |-> "None"]]

\* Result<u64, Error> as [ok, end, err]
safe_box_end(ctx, start, hdr, limit) ==
  LET size == IF hdr.size = 0 THEN SatSub(limit, start) ELSE hdr.size
      end == Min(SatAdd(start, size), limit)
  IN IF size < hdr.header_len
     THEN [ok |-> FALSE, end |-> 0, err |-> InvalidBox(ctx, start, hdr, "size < header_len")]
     ELSE IF end <= start
     THEN [ok |-> FALSE, end |-> 0, err |-> InvalidBox(ctx, start, hdr, "non-advancing end")]
     ELSE [ok |-> TRUE, end |-> end, err |-> [kind |-> "None"]]

\* ------------------------------------- mp4.rs: offset reconstruction

\* first_chunk of the run after run i (1-based here), or chunk count + 1
NextFirst(t, i) ==
  IF i + 1 <= Len(t.stsc) THEN t.stsc[i + 1].first_chunk
  ELSE Len(t.chunk_offsets) + 1

\* `chunk_idx_1based - 1` on a u32: with first_chunk = 0 and a non-empty
\* range the subtraction overflows, which panics in a build with overflow
\* checks and wraps (to an index past the array) in one without.
RunUnderflows(t) ==
  \E i \in 1..Len(t.stsc) : t.stsc[i].first_chunk = 0 /\ 0 < NextFirst(t, i)

\* The inner loop of one run: slots first_chunk-1 .. next_first-2 that
\* exist are set to the run's samples_per_chunk.
ApplyRun(chunk_samples, first, next_first, spc) ==
  [k \in 1..Len(chunk_samples) |->
     IF first <= k /\ k < next_first THEN spc ELSE chunk_samples[k]]

RECURSIVE ExpandRuns(_, _, _)
ExpandRuns(t, i, chunk_samples) ==
  IF i > Len(t.stsc) THEN chunk_samples
  ELSE ExpandRuns(t, i + 1,
                  ApplyRun(chunk_samples, t.stsc[i].first_chunk, NextFirst(t, i),
                           t.stsc[i].samples_per_chunk))

RECURSIVE FillZeros(_, _, _)
\* mutant: a zero takes the first non-zero value before it
FillZeros_FirstNonZero(chunk_samples, k, last) ==
  IF k > Len(chunk_samples) THEN chunk_samples
  ELSE IF chunk_samples[k] = 0
       THEN FillZeros([chunk_samples EXCEPT ![k] = last], k + 1, last)
       ELSE FillZeros(chunk_samples, k + 1, IF last = 0 THEN chunk_samples[k] ELSE last)

\* `for v in &mut chunk_samples`: a zero takes the last non-zero value
FillZeros(chunk_samples, k, last) ==
  IF k > Len(chunk_samples) THEN chunk_samples
  ELSE IF chunk_samples[k] = 0
       THEN FillZeros([chunk_samples EXCEPT ![k] = last], k + 1, last)
       ELSE FillZeros(chunk_samples, k + 1, chunk_samples[k])

\* the per-chunk sample counts before and after the fill
ExpandedChunkSamples(t) ==
  ExpandRuns(t, 1, [k \in 1..Len(t.chunk_offsets) |-> 0])

ChunkSamples(t) == FillZeros(ExpandedChunkSamples(t), 1, 0)

\* mutant: the running offset advances by the size of the sample after
RECURSIVE ChunkWalk_NextSize(_, _, _, _, _)
ChunkWalk_NextSize(t, n, off, sample_index, offs) ==
  IF n = 0 \/ sample_index >= Len(t.sample_sizes)
  THEN [offs |-> offs, sample_index |-> sample_index]
  ELSE ChunkWalk_NextSize(t, n - 1,
                          off + At(t.sample_sizes,
                                   Min(sample_index + 1, Len(t.sample_sizes) - 1)),
                          sample_index + 1, Append(offs, off))

\* `for _ in 0..spc` of one chunk: [offs, sample_index]
RECURSIVE ChunkWalk(_, _, _, _, _)
ChunkWalk(t, n, off, sample_index, offs) ==
  IF n = 0 \/ sample_index >= Len(t.sample_sizes)
  THEN [offs |-> offs, sample_index |-> sample_index]
  ELSE ChunkWalk(t, n - 1, off + At(t.sample_sizes, sample_index),
                 sample_index + 1, Append(offs, off))

RECURSIVE OffsetWalk(_, _, _, _, _)
\* after chunk chunk_i, whose walk gave w
OffsetStep(t, chunk_samples, chunk_i, w) ==
  OffsetWalk(t, chunk_samples, chunk_i + 1, w.sample_index, w.offs)

OffsetWalk(t, chunk_samples, chunk_i, sample_index, offs) ==
  IF chunk_i >= Len(t.chunk_offsets) THEN offs
  ELSE OffsetStep(t, chunk_samples, chunk_i,
                  ChunkWalk(t, At(chunk_samples, chunk_i), At(t.chunk_offsets, chunk_i),
                            sample_index, offs))

SampleOffsetsOf(t) == OffsetWalk(t, ChunkSamples(t), 0, 0, <<>>)

InconsistentSampleTables(t, offs) ==
  [kind |-> "Mp4InconsistentSampleTables", sample_sizes |-> Len(t.sample_sizes),
   sample_offsets |-> Len(offs), chunk_offsets |-> Len(t.chunk_offsets)]

\* mutant: the length check is left out
CheckOffsets_Unchecked(t, offs) ==
  [status |-> "ok", offsets |-> offs, err |-> [kind |-> "None"]]

\* the final length check on the offsets produced
CheckOffsets(t, offs) ==
  IF Len(offs) # Len(t.sample_sizes)
  THEN [status |-> "err", offsets |-> <<>>, err |-> InconsistentSampleTables(t, offs)]
  ELSE [status |-> "ok", offsets |-> offs, err |-> [kind |-> "None"]]

\* Result<Vec<u64>, Error> as [status, offsets, err]; overflow_checks is the
\* build profile's setting.
build_sample_offsets(t, overflow_checks) ==
  IF overflow_checks /\ RunUnderflows(t)
  THEN [status |-> "panic", offsets |-> <<>>, err |-> [kind |-> "Panic"]]
  ELSE CheckOffsets(t, SampleOffsetsOf(t))

\* ---------------------------------- mp4.rs: tracks of the container

\* A media box is the sequence of its children as the walk meets them:
\*   [box |-> "hdlr", handler |-> h]            a handler box
\*   [box |-> "minf", res |-> r, tables |-> t]  parse_minf's result: "ok"
\*        (a sample table box, tables t), "none" (no stbl), "err" (failed)
\*   [box |-> "bad"]                            a box safe_box_end rejects
\*   [box |-> "other"]
NoTables == [sample_sizes |-> <<>>, chunk_offsets |-> <<>>, stsc |-> <<>>,
             codec |-> [kind |-> "Unknown", nal_len_size |-> 0]]

MinfError == [kind |-> "Mp4MissingSampleTables"]

MdiaBoxError == [kind |-> "Mp4InvalidBox", context |-> "mdia"]

\* the loop of parse_mdia: [failed, handler_type, stbl_tables, minf_err]
RECURSIVE MdiaLoop(_, _, _)
MdiaLoop(children, k, st) ==
  IF k > Len(children) \/ st.failed THEN st
  ELSE LET c == children[k]
       IN MdiaLoop(children, k + 1,
            CASE c.box = "hdlr" -> [st EXCEPT !.handler_type = c.handler]
              [] c.box = "minf" /\ c.res = "ok" ->
                   [st EXCEPT !.stbl_some = TRUE, !.stbl_tables = c.tables]
              [] c.box = "minf" /\ c.res = "none" ->
                   [st EXCEPT !.stbl_some = FALSE, !.stbl_tables = NoTables]
              [] c.box = "minf" /\ c.res = "err" -> [st EXCEPT !.minf_err = TRUE]
              [] c.box = "bad" -> [st EXCEPT !.failed = TRUE]
              [] OTHER -> st)

NoTrack ==
  [status |-> "ok", some |-> FALSE, tables |-> NoTables, err |-> [kind |-> "None"]]

\* mutant: the handler type is not looked at
MdiaResult_AnyHandler(st) ==
  IF st.failed THEN [NoTrack EXCEPT !.status = "err", !.err = MdiaBoxError]
  ELSE IF st.minf_err THEN [NoTrack EXCEPT !.status = "err", !.err = MinfError]
  ELSE [NoTrack EXCEPT !.some = st.stbl_some, !.tables = st.stbl_tables]

\* what parse_mdia returns after its loop ended in st
MdiaResult(st) ==
  IF st.failed THEN [NoTrack EXCEPT !.status = "err", !.err = MdiaBoxError]
  ELSE IF st.handler_type = "vide"
  THEN IF st.minf_err THEN [NoTrack EXCEPT !.status = "err", !.err = MinfError]
       ELSE [NoTrack EXCEPT !.some = st.stbl_some, !.tables = st.stbl_tables]
  ELSE NoTrack

\* Result<Option<TrackSampleTables>, Error> as [status, some, tables, err]
parse_mdia(children) ==
  MdiaResult(MdiaLoop(children, 1,
                      [failed |-> FALSE, handler_type |-> "none", stbl_some |-> FALSE,
                       stbl_tables |-> NoTables, minf_err |-> FALSE]))

\* parse_trak: the first media box of the track decides; a track box
\* [has_mdia, mdia] without one yields no track.
parse_trak(trak) ==
  IF trak.has_mdia THEN parse_mdia(trak.mdia) ELSE NoTrack

\* parse_moov over the track boxes: [status, tracks, err]
RECURSIVE MoovLoop(_, _, _)
\* after track box k, whose parse gave r
MoovStep(traks_in, k, tracks, r) ==
  IF r.status = "err" THEN [status |-> "err", tracks |-> <<>>, err |-> r.err]
  ELSE MoovLoop(traks_in, k + 1, IF r.some THEN Append(tracks, r.tables) ELSE tracks)

MoovLoop(traks_in, k, tracks) ==
  IF k > Len(traks_in)
  THEN [status |-> "ok", tracks |-> tracks, err |-> [kind |-> "None"]]
  ELSE MoovStep(traks_in, k, tracks, parse_trak(traks_in[k]))

parse_mp4(traks_in) == MoovLoop(traks_in, 1, <<>>)

\* Iterator::max_by_key over sample_sizes.len(): of several maxima the last
RECURSIVE MaxByKeyLoop(_, _, _)
MaxByKeyLoop(tracks, k, best) ==
  IF k > Len(tracks) THEN best
  ELSE MaxByKeyLoop(tracks, k + 1,
                    IF Len(tracks[k].sample_sizes) >= Len(tracks[best].sample_sizes)
                    THEN k ELSE best)

SelectTrack(tracks) == MaxByKeyLoop(tracks, 2, 1)

OpenFailed(status, e) ==
  [status |-> status, err |-> e, sample_sizes |-> <<>>, sample_offsets |-> <<>>,
   codec |-> NoTables.codec]

\* the extractor over the selected track, whose offsets were built as b
ExtractorOver(track, b) ==
  IF b.status # "ok" THEN OpenFailed(b.status, b.err)
  ELSE [status |-> "ok", err |-> [kind |-> "None"],
        sample_sizes |-> track.sample_sizes,
        sample_offsets |-> b.offsets, codec |-> track.codec]

ExtractorFromTrack(track, overflow_checks) ==
  ExtractorOver(track, build_sample_offsets(track, overflow_checks))

ExtractorFromMp4(mp4, overflow_checks) ==
  IF mp4.status = "err" THEN OpenFailed("err", mp4.err)
  ELSE IF Len(mp4.tracks) = 0 THEN OpenFailed("err", [kind |-> "NoTracksFound"])
  ELSE ExtractorFromTrack(mp4.tracks[SelectTrack(mp4.tracks)], overflow_checks)

\* extractor_from_reader: [status, err, sample_sizes, sample_offsets, codec]
extractor_from_reader(traks_in, overflow_checks) ==
  ExtractorFromMp4(parse_mp4(traks_in), overflow_checks)

\* ------------------------------------------------------------ state

VARIABLES
  \* the input: the track boxes of the container and the bytes of the source
  traks, file,
  \* "closed" before open, "open" with an extractor, "failed" without one
  phase,
  \* SeiExtractor's fields
  sample_sizes, sample_offsets, codec,
  next_sample_index, pending_offset, pending_sample_index, pending,
  \* the last call: [op, arg, res, events, err, io, dropped]; io lists the
  \* (offset, size) reads it issued on the source, dropped counts the pending
  \* records it discarded
  last,
  \* the events returned by next since the last successful seek (or open),
  \* the index that seek set, and whether a next failed since
  emitted, anchor, clean,
  \* the box walk: the open loops (innermost last), its state, the last step
  wfile_len, wstack, wstatus, wlast, wtracks,
  \* one SEI unit: its body, the stage, the cleaned body, the messages
  \* scanned, how many of them were resolved, the records pushed, the last
  \* resolution
  sei_rbsp, sei_stage, sei_data, sei_msgs, sei_next, sei_out, sei_last,
  \* the stream of async_extract.rs: its two parameters, where the worker
  \* is, the item it holds, the channel, the receiver's state, and the first
  \* MaxItems items sent and received
  buffer, start_sample, worker, item, chan, rx, sent, recvd

inputVars == <<traks, file>>

cursorVars == <<next_sample_index, pending_offset, pending_sample_index, pending>>

extractorVars == <<phase, sample_sizes, sample_offsets, codec, cursorVars>>

historyVars == <<last, emitted, anchor, clean>>

extVars == <<inputVars, extractorVars, historyVars>>

walkVars == <<wfile_len, wstack, wstatus, wlast, wtracks>>

seiVars == <<sei_rbsp, sei_stage, sei_data, sei_msgs, sei_next, sei_out, sei_last>>

streamVars == <<buffer, start_sample, worker, item, chan, rx, sent, recvd>>

vars == <<extVars, walkVars, seiVars, streamVars>>

\* ------------------------------------------------- the input family

MaxSamples == 3

MaxSpc == 2

\* where the first sample lies in the source
MdatBase == 4

Avc1 == [kind |-> "Avc", nal_len_size |-> 1]

UnknownCodec == [kind |-> "Unknown", nal_len_size |-> 0]

\* Samples (AVC, 1-byte NAL lengths): a slice NAL, which holds no record;
\* an SEI NAL with two type 5 messages (version 1, then frame number 7)
BlobNone == <<2, 101, 0>>

BlobTwo == <<9, 6, 5, 2, 8, 1, 5, 2, 24, 7>>

Blobs == {BlobNone, BlobTwo}

BlobSeqs == UNION {[1..n -> Blobs] : n \in 0..MaxSamples}

RECURSIVE Concat(_)
Concat(ss) == IF Len(ss) = 0 THEN <<>> ELSE Head(ss) \o Concat(Tail(ss))

\* the source: MdatBase bytes of other boxes, the samples back to back, the
\* last `cut` bytes missing (a truncated recording)
FileOf(blobs, cut) ==
  LET whole == [i \in 1..MdatBase |-> 0] \o Concat(blobs)
  IN SubSeq(whole, 1, Len(whole) - Min(cut, Len(Concat(blobs))))

BlobStart(blobs, i) == MdatBase + Len(Concat(SubSeq(blobs, 1, i - 1)))

\* The tables of a track whose samples are blobs, spc samples to a chunk
\* (spc = 0: a run table that gives every chunk no sample)
TablesOf(blobs, spc, cdc) ==
  LET n == Len(blobs)
      per == Max(spc, 1)
      nchunks == (n + per - 1) \div per
  IN [sample_sizes |-> [i \in 1..n |-> Len(blobs[i])],
      chunk_offsets |-> [c \in 1..nchunks |-> BlobStart(blobs, (c - 1) * per + 1)],
      stsc |-> <<[first_chunk |-> 1, samples_per_chunk |-> spc]>>,
      codec |-> cdc]

Child(box, handler, res, tables) ==
  [box |-> box, handler |-> handler, res |-> res, tables |-> tables]

Hdlr(h) == Child("hdlr", h, "none", NoTables)

Minf(res, t) == Child("minf", "none", res, t)

Trak(children) == [has_mdia |-> TRUE, mdia |-> children]

Shapes == {"main", "preview_first", "preview_last", "audio_bigger", "audio_only",
           "no_trak", "no_mdia", "vide_no_stbl", "audio_minf_err", "vide_minf_err",
           "audio_bad_box", "audio_err_only", "hdlr_last_wins", "twin_unknown"}

\* the track boxes of a container of one shape around a main track
TraksOf(shape, blobs, spc, cdc) ==
  LET m == TablesOf(blobs, spc, cdc)
      pv == TablesOf(SubSeq(blobs, 1, Min(1, Len(blobs))), 1, cdc)
      bg == TablesOf(blobs \o <<BlobNone>>, 1, cdc)
      vide(t) == Trak(<<Hdlr("vide"), Minf("ok", t)>>)
  IN CASE shape = "main" -> <<vide(m)>>
       [] shape = "preview_first" -> <<vide(pv), vide(m)>>
       [] shape = "preview_last" -> <<vide(m), vide(pv)>>
       [] shape = "audio_bigger" -> <<Trak(<<Hdlr("soun"), Minf("ok", bg)>>), vide(m)>>
       [] shape = "audio_only" -> <<Trak(<<Hdlr("soun"), Minf("ok", m)>>)>>
       [] shape = "no_trak" -> <<>>
       [] shape = "no_mdia" -> <<[has_mdia |-> FALSE, mdia |-> <<>>]>>
       [] shape = "vide_no_stbl" -> <<Trak(<<Hdlr("vide"), Minf("none", NoTables)>>)>>
       [] shape = "audio_minf_err" ->
            <<Trak(<<Hdlr("soun"), Minf("err", NoTables)>>), vide(m)>>
       [] shape = "vide_minf_err" ->
            <<Trak(<<Hdlr("vide"), Minf("ok", m), Minf("err", NoTables)>>)>>
       [] shape = "audio_bad_box" ->
            <<Trak(<<Hdlr("soun"), Child("bad", "none", "none", NoTables)>>), vide(m)>>
       [] shape = "audio_err_only" -> <<Trak(<<Hdlr("soun"), Minf("err", NoTables)>>)>>
       [] shape = "hdlr_last_wins" ->
            <<Trak(<<Hdlr("vide"), Minf("ok", m), Hdlr("soun")>>)>>
       [] OTHER -> <<vide(m), vide([m EXCEPT !.codec = UnknownCodec])>>

\* The samples as the recording holds them: NAL lengths of 1 byte under AVC;
\* of 4 bytes, the width tried for it, under the unknown codec
SamplesOf(blobs, cdc) ==
  IF cdc = UnknownCodec THEN [i \in DOMAIN blobs |-> <<0, 0, 0>> \o blobs[i]]
  ELSE blobs

\* The inputs: every sample sequence in a plain container, and every sample
\* sequence with one of the parameters away from its plain value.
Inputs ==
  {p \in [blobs : BlobSeqs, spc : 0..MaxSpc, cut : 0..1,
          codec : {Avc1, UnknownCodec}, shape : Shapes] :
     Cardinality({x \in {<<"spc", p.spc # 1>>, <<"cut", p.cut # 0>>,
                         <<"codec", p.codec # Avc1>>, <<"shape", p.shape # "main">>} :
                  x[2]}) <= 1}

\* ---- sample tables on their own: sizes and chunk offsets of a fixed
\* pattern under every short sample-to-chunk table, well-formed or not

MaxChunks == 2

MaxRuns == 2

SizePattern == <<100, 120, 90>>

SampleSizeAt(i) == SizePattern[(i % Len(SizePattern)) + 1]

ChunkOffsetAt(c) == 1000 + 4000 * c

StscEntries ==
  [first_chunk : 0..MaxChunks + 1, samples_per_chunk : 0..MaxSpc]

StscTables == UNION {[1..n -> StscEntries] : n \in 0..MaxRuns}

\* three chunks under three runs, the last of which gives its chunk no sample
GapTables ==
  {[sample_sizes |-> [i \in 1..n |-> SampleSizeAt(i - 1)],
    chunk_offsets |-> [c \in 1..3 |-> ChunkOffsetAt(c - 1)],
    stsc |-> <<[first_chunk |-> 1, samples_per_chunk |-> a],
               [first_chunk |-> 2, samples_per_chunk |-> b],
               [first_chunk |-> 3, samples_per_chunk |-> 0]>>,
    codec |-> Avc1] : n \in 0..MaxSamples + 2, a \in 0..MaxSpc, b \in 0..MaxSpc}

TableFamily ==
  GapTables \cup
  {[sample_sizes |-> [i \in 1..n |-> SampleSizeAt(i - 1)],
    chunk_offsets |-> [c \in 1..m |-> ChunkOffsetAt(c - 1)],
    stsc |-> r,
    codec |-> Avc1] : n \in 0..MaxSamples, m \in 0..MaxChunks, r \in StscTables}

NoError == [kind |-> "None"]

NoCall == [op |-> "none", arg |-> 0, res |-> "none", events |-> <<>>,
           err |-> NoError, io |-> <<>>, dropped |-> 0]

NoHeader == [typ |-> "none", size |-> 0, header_len |-> 0]

WalkNone ==
  [kind |-> "none", ctx |-> "none", start |-> 0, limit |-> 0, hdr |-> NoHeader,
   end |-> 0, err |-> NoError]

WalkIdle ==
  /\ wfile_len = 0
  /\ wstack = <<>>
  /\ wstatus = "idle"
  /\ wlast = WalkNone
  /\ wtracks = 0

NoResolve ==
  [kind |-> "none", typ |-> 0, payload |-> <<>>, cands |-> <<>>, res |-> NoMsg]

SeiIdle ==
  /\ sei_rbsp = <<>>
  /\ sei_stage = "idle"
  /\ sei_data = <<>>
  /\ sei_msgs = <<>>
  /\ sei_next = 0
  /\ sei_out = <<>>
  /\ sei_last = NoResolve

\* an item of the stream: Result<SeiEvent, Error>
NoItem ==
  [ok |-> TRUE,
   ev |-> [sample_index |-> 0, file_offset |-> 0, metadata |-> DefaultMsg],
   err |-> NoError]

OkItem(ev) == [NoItem EXCEPT !.ev = ev]

ErrItem(err) == [NoItem EXCEPT !.ok = FALSE, !.err = err]

StreamIdle ==
  /\ buffer = 0
  /\ start_sample = 0
  /\ worker = "idle"
  /\ item = NoItem
  /\ chan = <<>>
  /\ rx = "idle"
  /\ sent = <<>>
  /\ recvd = <<>>

ExtractorClosed ==
  /\ phase = "closed"
  /\ sample_sizes = <<>>
  /\ sample_offsets = <<>>
  /\ codec = UnknownCodec
  /\ next_sample_index = 0
  /\ pending_offset = 0
  /\ pending_sample_index = 0
  /\ pending = <<>>
  /\ last = NoCall
  /\ emitted = <<>>
  /\ anchor = 0
  /\ clean = TRUE

Init ==
  /\ \E p \in Inputs :
       /\ traks = TraksOf(p.shape, SamplesOf(p.blobs, p.codec), p.spc, p.codec)
       /\ file = FileOf(SamplesOf(p.blobs, p.codec), p.cut)
  /\ ExtractorClosed
  /\ WalkIdle
  /\ SeiIdle
  /\ StreamIdle

\* ---------------------------------------------- extract.rs: the source

IoError == [kind |-> "Io"]

\* reader.seek(SeekFrom::Start(off)) then reader.read_exact(buf) of sz
\* bytes: the read fails when the source ends before off + sz
CanRead(off, sz) == off + sz <= Len(file)

ReadExact(off, sz) == Slice(file, off, off + sz)

Event(sample_index, off, metadata) ==
  [sample_index |-> sample_index, file_offset |-> off, metadata |-> metadata]

EventsOf(sample_index, off, decoded) ==
  [k \in 1..Len(decoded) |-> Event(sample_index, off, decoded[k])]

TotalSamples == Len(sample_offsets)

\* ------------------------------------------------ extract.rs: open

\* the state after extractor_from_reader returned r
Opened(r) ==
  /\ phase' = IF r.status = "ok" THEN "open" ELSE "failed"
  /\ sample_sizes' = r.sample_sizes
  /\ sample_offsets' = r.sample_offsets
  /\ codec' = r.codec
  /\ last' = [NoCall EXCEPT !.op = "open",
                            !.res = IF r.status = "ok" THEN "Ok"
                                    ELSE IF r.status = "panic" THEN "Panic"
                                    ELSE "Err",
                            !.err = r.err]
  /\ next_sample_index' = 0
  /\ pending_offset' = 0
  /\ pending_sample_index' = 0
  /\ pending' = <<>>
  /\ emitted' = <<>>
  /\ anchor' = 0
  /\ clean' = TRUE

Open ==
  /\ phase = "closed"
  /\ \E overflow_checks \in BOOLEAN :
       Opened(extractor_from_reader(traks, overflow_checks))
  /\ UNCHANGED <<inputVars, walkVars, seiVars, streamVars>>

\* ------------------------------------------ extract.rs: seek_sample

SampleIndexOutOfRange(sample_index) ==
  [kind |-> "SampleIndexOutOfRange", sample_index |-> sample_index,
   total_samples |-> TotalSamples]

\* mutant: the end-of-stream position is refused
SeekAccepts_RefusesEnd(sample_index) == ~(sample_index >= TotalSamples)

\* mutant: one index past the end-of-stream position is accepted
SeekAccepts_OnePastEnd(sample_index) == ~(sample_index > TotalSamples + 1)

SeekAccepts(sample_index) == ~(sample_index > TotalSamples)

\* mutant: the pending records survive the seek
SeekReturns_KeepsPending(sample_index) ==
  IF SeekAccepts(sample_index)
  THEN /\ next_sample_index' = sample_index
       /\ UNCHANGED <<pending, pending_offset, pending_sample_index>>
       /\ last' = [NoCall EXCEPT !.op = "seek", !.arg = sample_index, !.res = "Ok"]
       /\ emitted' = <<>>
       /\ anchor' = sample_index
       /\ clean' = TRUE
  ELSE /\ last' = [NoCall EXCEPT !.op = "seek", !.arg = sample_index, !.res = "Err",
                                 !.err = SampleIndexOutOfRange(sample_index)]
       /\ UNCHANGED <<cursorVars, emitted, anchor, clean>>

\* the state after seek_sample(sample_index) returned
SeekReturns(sample_index) ==
  IF SeekAccepts(sample_index)
  THEN /\ next_sample_index' = sample_index
       /\ pending' = <<>>
       /\ pending_offset' = 0
       /\ pending_sample_index' = 0
       /\ last' = [NoCall EXCEPT !.op = "seek", !.arg = sample_index, !.res = "Ok",
                                 !.dropped = Len(pending)]
       /\ emitted' = <<>>
       /\ anchor' = sample_index
       /\ clean' = TRUE
  ELSE /\ last' = [NoCall EXCEPT !.op = "seek", !.arg = sample_index, !.res = "Err",
                                 !.err = SampleIndexOutOfRange(sample_index)]
       /\ UNCHANGED <<cursorVars, emitted, anchor, clean>>

seek_sample(sample_index) ==
  /\ phase = "open"
  /\ SeekReturns(sample_index)
  /\ UNCHANGED <<inputVars, phase, sample_sizes, sample_offsets, codec,
                 walkVars, seiVars, streamVars>>

\* ----------------------------------- extract.rs: read_sample_events

ReadAccepts(sample_index) == ~(sample_index >= TotalSamples)

ReadAtCall(sample_index) == [NoCall EXCEPT !.op = "read_at", !.arg = sample_index]

\* the events of the sample at off, of sz bytes
ReadEventsAt(sample_index, off, sz, io_fails) ==
  IF io_fails \/ ~CanRead(off, sz)
  THEN [ReadAtCall(sample_index) EXCEPT !.res = "Err", !.err = IoError,
                                        !.io = <<<<off, sz>>>>]
  ELSE [ReadAtCall(sample_index) EXCEPT
          !.res = "Ok", !.io = <<<<off, sz>>>>,
          !.events = EventsOf(sample_index, off,
                              decode_sei_from_sample(codec, ReadExact(off, sz)))]

\* mutant: the call leaves the sequential cursor behind the sample it read
read_sample_events_MovesCursor(sample_index, io_fails) ==
  /\ phase = "open"
  /\ IF ~ReadAccepts(sample_index)
     THEN /\ last' = [ReadAtCall(sample_index) EXCEPT
                        !.res = "Err", !.err = SampleIndexOutOfRange(sample_index)]
          /\ UNCHANGED cursorVars
     ELSE /\ last' = ReadEventsAt(sample_index, At(sample_offsets, sample_index),
                                  At(sample_sizes, sample_index), io_fails)
          /\ next_sample_index' = sample_index + 1
          /\ UNCHANGED <<pending_offset, pending_sample_index, pending>>
  /\ UNCHANGED <<inputVars, phase, sample_sizes, sample_offsets, codec,
                 emitted, anchor, clean, walkVars, seiVars, streamVars>>

\* io_fails: the source fails this read for a reason of its own
read_sample_events(sample_index, io_fails) ==
  /\ phase = "open"
  /\ IF ~ReadAccepts(sample_index)
     THEN last' = [ReadAtCall(sample_index) EXCEPT
                     !.res = "Err", !.err = SampleIndexOutOfRange(sample_index)]
     ELSE last' = ReadEventsAt(sample_index, At(sample_offsets, sample_index),
                               At(sample_sizes, sample_index), io_fails)
  /\ UNCHANGED <<inputVars, phase, sample_sizes, sample_offsets, codec, cursorVars,
                 emitted, anchor, clean, walkVars, seiVars, streamVars>>

\* --------------------------- extract.rs: read_next_sample_into_pending

Cursor ==
  [next_sample_index |-> next_sample_index, pending_offset |-> pending_offset,
   pending_sample_index |-> pending_sample_index, pending |-> pending]

\* The loop from cursor c; the fail_at-th read of the call fails for a
\* reason of the source's own (0: none does).  [ok, c, io]
RECURSIVE ReadNextLoop(_, _, _, _)
\* mutant: the pending records are tagged with the index after the increment
ReadNextDecoded_TagsNextIndex(c, reads, fail_at, io, sample_index, off, decoded) ==
  IF Len(decoded) = 0
  THEN ReadNextLoop([c EXCEPT !.next_sample_index = sample_index + 1],
                    reads + 1, fail_at, io)
  ELSE [ok |-> TRUE, io |-> io,
        c |-> [c EXCEPT !.next_sample_index = sample_index + 1,
                        !.pending_offset = off,
                        !.pending_sample_index = sample_index + 1,
                        !.pending = decoded]]

\* mutant: the offset of the pending records is not set
ReadNextDecoded_KeepsOffset(c, reads, fail_at, io, sample_index, off, decoded) ==
  IF Len(decoded) = 0
  THEN ReadNextLoop([c EXCEPT !.next_sample_index = sample_index + 1],
                    reads + 1, fail_at, io)
  ELSE [ok |-> TRUE, io |-> io,
        c |-> [c EXCEPT !.next_sample_index = sample_index + 1,
                        !.pending_sample_index = sample_index,
                        !.pending = decoded]]

\* after sample sample_index at off was read and decoded
ReadNextDecoded(c, reads, fail_at, io, sample_index, off, decoded) ==
  IF Len(decoded) = 0
  THEN ReadNextLoop([c EXCEPT !.next_sample_index = sample_index + 1],
                    reads + 1, fail_at, io)
  ELSE [ok |-> TRUE, io |-> io,
        c |-> [c EXCEPT !.next_sample_index = sample_index + 1,
                        !.pending_offset = off,
                        !.pending_sample_index = sample_index,
                        !.pending = decoded]]

\* mutant: a sample whose read fails is passed over
ReadNextSample_SkipsFailed(c, reads, fail_at, io, sample_index, off, sz) ==
  IF reads + 1 = fail_at \/ ~CanRead(off, sz)
  THEN [ok |-> FALSE, c |-> [c EXCEPT !.next_sample_index = sample_index + 1],
        io |-> Append(io, <<off, sz>>)]
  ELSE ReadNextDecoded(c, reads, fail_at, Append(io, <<off, sz>>), sample_index, off,
                       decode_sei_from_sample(codec, ReadExact(off, sz)))

\* the read of sample sample_index, at off and of sz bytes
ReadNextSample(c, reads, fail_at, io, sample_index, off, sz) ==
  IF reads + 1 = fail_at \/ ~CanRead(off, sz)
  THEN [ok |-> FALSE, c |-> c, io |-> Append(io, <<off, sz>>)]
  ELSE ReadNextDecoded(c, reads, fail_at, Append(io, <<off, sz>>), sample_index, off,
                       decode_sei_from_sample(codec, ReadExact(off, sz)))

ReadNextLoop(c, reads, fail_at, io) ==
  IF Len(c.pending) = 0 /\ c.next_sample_index < TotalSamples
  THEN ReadNextSample(c, reads, fail_at, io, c.next_sample_index,
                      At(sample_offsets, c.next_sample_index),
                      At(sample_sizes, c.next_sample_index))
  ELSE [ok |-> TRUE, c |-> c, io |-> io]

read_next_sample_into_pending(fail_at) == ReadNextLoop(Cursor, 0, fail_at, <<>>)

\* ------------------------------------------ extract.rs: Iterator::next

NextCall(io) == [NoCall EXCEPT !.op = "next", !.io = io]

\* the state after read_next_sample_into_pending returned r
NextReturns(r) ==
  /\ next_sample_index' = r.c.next_sample_index
  /\ pending_offset' = r.c.pending_offset
  /\ pending_sample_index' = r.c.pending_sample_index
  /\ IF ~r.ok
     THEN /\ pending' = r.c.pending
          /\ last' = [NextCall(r.io) EXCEPT !.res = "Err", !.err = IoError]
          /\ clean' = FALSE
          /\ UNCHANGED emitted
     ELSE IF Len(r.c.pending) = 0
     THEN /\ pending' = r.c.pending
          /\ last' = [NextCall(r.io) EXCEPT !.res = "End"]
          /\ UNCHANGED <<emitted, clean>>
     ELSE /\ pending' = Tail(r.c.pending)
          /\ last' = [NextCall(r.io) EXCEPT
                        !.res = "Event",
                        !.events = <<Event(r.c.pending_sample_index, r.c.pending_offset,
                                           Head(r.c.pending))>>]
          /\ emitted' = Append(emitted, Event(r.c.pending_sample_index,
                                              r.c.pending_offset, Head(r.c.pending)))
          /\ UNCHANGED clean

next(fail_at) ==
  /\ phase = "open"
  /\ NextReturns(read_next_sample_into_pending(fail_at))
  /\ UNCHANGED <<inputVars, phase, sample_sizes, sample_offsets, codec, anchor,
                 walkVars, seiVars, streamVars>>

\* ------------------------------------------------ the extractor

Next ==
  \/ Open
  \/ \E fail_at \in 0..TotalSamples : next(fail_at)
  \/ \E sample_index \in 0..TotalSamples + 2 : seek_sample(sample_index)
  \/ \E sample_index \in 0..TotalSamples + 1, io_fails \in BOOLEAN :
       read_sample_events(sample_index, io_fails)

Spec == Init /\ [][Next]_vars

\* ---- the offset reconstruction over the table family

InitTables ==
  /\ \E t \in TableFamily : traks = <<Trak(<<Hdlr("vide"), Minf("ok", t)>>)>>
  /\ file = <<>>
  /\ ExtractorClosed
  /\ WalkIdle
  /\ SeiIdle
  /\ StreamIdle

NextTables == Open

SpecTables == InitTables /\ [][NextTables]_vars

\* ------------------------------------------------ mp4.rs: the box walk

\* The walk of parse_mp4 and of the parsers it calls, one loop iteration
\* per step.  wstack holds the ranges being walked, innermost last: a frame
\* [ctx, pos, limit] is one `while pos + 8 <= end` loop with, for the media
\* box, parse_mdia's locals and, for the sample table box, the tables seen.
\* parse_trak returns what parse_mdia returns and parse_minf what parse_stbl
\* returns, so the frame of the callee takes the place of the caller's.
\* The bytes of the file are chosen when they are read: no position is read
\* twice by a walk whose ranges only move forward.

MaxFileWords == 20

\* file lengths: the multiples of four up to MaxFileWords words
FileLens == {4 * n : n \in 0..MaxFileWords}

Size32Values == {0, 1, 4, 8, 16, 500}

Size64Values == {0, 8, 16, WordMax}

BoxTags == {"moov", "trak", "mdia", "hdlr", "minf", "stbl",
            "stsz", "stco", "stsc", "free"}

TableTags == {"stsz", "stco", "stsc"}

Frame(ctx, pos, limit) ==
  [ctx |-> ctx, pos |-> pos, limit |-> limit, handler |-> "none",
   minf_err |-> FALSE, stbl_some |-> FALSE, seen |-> {}]

TopFrame == wstack[Len(wstack)]

Outer == SubSeq(wstack, 1, Len(wstack) - 1)

\* the bytes a table parser reads before the entries: version/flags and
\* count, and for stsz the default sample size
TableFieldBytes(typ) == IF typ = "stsz" THEN 12 ELSE 8

\* an error leaves the range of ctx: parse_mdia keeps what parse_minf
\* returns (also what parse_stbl returned to it), everything else passes
\* the error on to open
WalkFails(f, step) ==
  IF f.ctx \in {"minf", "stbl"}
  THEN /\ wstack' = SubSeq(wstack, 1, Len(wstack) - 2)
                      \o <<[wstack[Len(wstack) - 1] EXCEPT !.minf_err = TRUE]>>
       /\ wstatus' = "walking"
       /\ wlast' = step
       /\ UNCHANGED wtracks
  ELSE /\ wstack' = <<>>
       /\ wstatus' = "failed"
       /\ wlast' = step
       /\ UNCHANGED wtracks

\* the loop of f goes on behind the box
WalkOn(f, step) ==
  /\ wstack' = Outer \o <<[f EXCEPT !.pos = step.end]>>
  /\ wlast' = step
  /\ UNCHANGED <<wstatus, wtracks>>

\* the children of the box are walked by the parser of ctx, which returns
\* to the loop of f
WalkInto(f, step, ctx) ==
  /\ wstack' = Outer \o <<[f EXCEPT !.pos = step.end],
                          Frame(ctx, step.start + step.hdr.header_len, step.end)>>
  /\ wlast' = step
  /\ UNCHANGED <<wstatus, wtracks>>

\* the children of the box are walked by the parser of ctx, whose result
\* is the result of the parser of f
WalkReturnInto(f, step, ctx) ==
  /\ wstack' = Outer \o <<Frame(ctx, step.start + step.hdr.header_len, step.end)>>
  /\ wlast' = step
  /\ UNCHANGED <<wstatus, wtracks>>

\* the match on the tag of a box the loop of f got from safe_box_end
WalkBox(f, step, handler, entries_eof) ==
  LET typ == step.hdr.typ
      payload_start == step.start + step.hdr.header_len
  IN CASE f.ctx = "top" /\ typ = "moov" -> WalkInto(f, step, "moov")
       [] f.ctx = "moov" /\ typ = "trak" -> WalkInto(f, step, "trak")
       [] f.ctx = "trak" /\ typ = "mdia" -> WalkReturnInto(f, step, "mdia")
       [] f.ctx = "mdia" /\ typ = "minf" -> WalkInto(f, step, "minf")
       [] f.ctx = "minf" /\ typ = "stbl" -> WalkReturnInto(f, step, "stbl")
       [] f.ctx = "mdia" /\ typ = "hdlr" ->
            IF payload_start + 12 > wfile_len
            THEN WalkFails(f, [step EXCEPT !.kind = "io", !.err = IoError])
            ELSE /\ wstack' = Outer \o <<[f EXCEPT !.pos = step.end,
                                                   !.handler = handler]>>
                 /\ wlast' = step
                 /\ UNCHANGED <<wstatus, wtracks>>
       [] f.ctx = "stbl" /\ typ \in TableTags ->
            IF entries_eof \/ payload_start + TableFieldBytes(typ) > wfile_len
            THEN WalkFails(f, [step EXCEPT !.kind = "io", !.err = IoError])
            ELSE /\ wstack' = Outer \o <<[f EXCEPT !.pos = step.end,
                                                   !.seen = f.seen \cup {typ}]>>
                 /\ wlast' = step
                 /\ UNCHANGED <<wstatus, wtracks>>
       [] OTHER -> WalkOn(f, step)

\* after safe_box_end returned r for the header hdr read at f.pos
WalkChecked(f, hdr, r, handler, entries_eof) ==
  IF r.ok
  THEN WalkBox(f, [kind |-> "box", ctx |-> f.ctx, start |-> f.pos, limit |-> f.limit,
                   hdr |-> hdr, end |-> r.end, err |-> NoError],
               handler, entries_eof)
  ELSE WalkFails(f, [kind |-> "invalid", ctx |-> f.ctx, start |-> f.pos,
                     limit |-> f.limit, hdr |-> hdr, end |-> 0, err |-> r.err])

\* One iteration of a `while pos + 8 <= end` loop.  size32, typ and size64
\* are the bytes at pos; handler is the handler type a hdlr box holds and
\* entries_eof says that the entries of a table run past the end of file.
WalkStep(size32, typ, size64, handler, entries_eof) ==
  /\ wstatus = "walking"
  /\ TopFrame.pos + 8 <= TopFrame.limit
  /\ IF TopFrame.pos + (IF size32 = 1 THEN 16 ELSE 8) > wfile_len
     THEN WalkFails(TopFrame,
                    [WalkNone EXCEPT !.kind = "io", !.ctx = TopFrame.ctx,
                                     !.start = TopFrame.pos,
                                     !.limit = TopFrame.limit, !.err = IoError])
     ELSE WalkChecked(TopFrame, read_box_header(size32, typ, size64),
                      safe_box_end(TopFrame.ctx, TopFrame.pos,
                                   read_box_header(size32, typ, size64),
                                   TopFrame.limit),
                      handler, entries_eof)
  /\ UNCHANGED <<wfile_len, extVars, seiVars, streamVars>>

MissingSampleTables == [kind |-> "Mp4MissingSampleTables"]

\* what the caller of the parser of f does with the parser's result
WalkReturns(f, step) ==
  CASE f.ctx = "top" ->
         /\ wstack' = <<>>
         /\ wstatus' = "done"
         /\ wlast' = step
         /\ UNCHANGED wtracks
    [] f.ctx = "mdia" /\ f.handler = "vide" /\ f.minf_err ->
         /\ wstack' = <<>>
         /\ wstatus' = "failed"
         /\ wlast' = [step EXCEPT !.err = MissingSampleTables]
         /\ UNCHANGED wtracks
    [] f.ctx = "mdia" /\ ~(f.handler = "vide" /\ f.minf_err) ->
         /\ wstack' = Outer
         /\ wtracks' = IF f.handler = "vide" /\ f.stbl_some
                       THEN wtracks + 1 ELSE wtracks
         /\ wlast' = step
         /\ UNCHANGED wstatus
    [] f.ctx = "minf" ->
         /\ wstack' = SubSeq(wstack, 1, Len(wstack) - 2)
                        \o <<[wstack[Len(wstack) - 1] EXCEPT !.stbl_some = FALSE]>>
         /\ wlast' = step
         /\ UNCHANGED <<wstatus, wtracks>>
    [] f.ctx = "stbl" ->
         /\ wstack' = SubSeq(wstack, 1, Len(wstack) - 2)
                        \o <<IF f.seen = TableTags
                             THEN [wstack[Len(wstack) - 1] EXCEPT !.stbl_some = TRUE]
                             ELSE [wstack[Len(wstack) - 1] EXCEPT !.minf_err = TRUE]>>
         /\ wlast' = IF f.seen = TableTags THEN step
                     ELSE [step EXCEPT !.err = MissingSampleTables]
         /\ UNCHANGED <<wstatus, wtracks>>
    [] OTHER ->
         /\ wstack' = Outer
         /\ wlast' = step
         /\ UNCHANGED <<wstatus, wtracks>>

\* the loop condition fails: fewer than 8 bytes are left of the range
WalkEnd ==
  /\ wstatus = "walking"
  /\ ~(TopFrame.pos + 8 <= TopFrame.limit)
  /\ WalkReturns(TopFrame,
                 [WalkNone EXCEPT !.kind = "end", !.ctx = TopFrame.ctx,
                                  !.start = TopFrame.pos, !.limit = TopFrame.limit])
  /\ UNCHANGED <<wfile_len, extVars, seiVars, streamVars>>

\* parse_mp4 on a file of any of the lengths
InitWalk ==
  /\ wfile_len \in FileLens
  /\ wstack = <<Frame("top", 0, wfile_len)>>
  /\ wstatus = "walking"
  /\ wlast = WalkNone
  /\ wtracks = 0
  /\ traks = <<>>
  /\ file = <<>>
  /\ ExtractorClosed
  /\ SeiIdle
  /\ StreamIdle

NextWalk ==
  \/ \E size32 \in Size32Values, typ \in BoxTags :
       \E size64 \in IF size32 = 1 THEN Size64Values ELSE {0},
          handler \in IF typ = "hdlr" THEN {"vide", "soun"} ELSE {"none"},
          entries_eof \in IF typ \in TableTags THEN BOOLEAN ELSE {FALSE} :
         WalkStep(size32, typ, size64, handler, entries_eof)
  \/ WalkEnd

SpecWalk == InitWalk /\ [][NextWalk]_vars

\* The walk runs in the thread that called open and is not interrupted:
\* a step that can be taken is taken.  Termination is looked at on the
\* shorter files.
MaxFairWords == 12

InitWalkFair == InitWalk /\ wfile_len <= 4 * MaxFairWords

SpecWalkFair == InitWalkFair /\ [][NextWalk]_vars /\ WF_vars(NextWalk)

\* ------------------------------------ sei.rs: the body of one SEI unit

\* What decode_sei_from_sample does with the body of one SEI NAL unit:
\* parse_sei_messages scans it, then try_decode_sei_metadata_from_payload
\* is given one message after the other and what resolves is pushed.

MaxTail == 3

TailBytes == {0, 1, 3, 8, 128}

Tails == UNION {[1..n -> TailBytes] : n \in 0..MaxTail}

Uuid == [i \in 1..16 |-> 17]

\* 16 bytes that are themselves fields of a record: frame_seq_no = 7, 8 times
FieldsUuid == [i \in 1..16 |-> IF i % 2 = 1 THEN 24 ELSE 7]

Prefixes == {<<>>, Uuid, FieldsUuid, <<66, 105>>, <<66, 66, 105>>}

TypeBytes == {<<5>>, <<4>>, <<255, 255, 5>>}

\* what follows the first message: nothing, the trailing bits, or a
\* message of type 5 holding frame_seq_no = 7
Followers == {<<>>, <<128>>, <<5, 2, 24, 7>>}

\* a message as it is written: type, size (extra more than there is), payload
Message(typ, payload, extra) == typ \o <<Len(payload) + extra>> \o payload

\* The bodies: a message of each type with each prefix and tail, and for
\* the payloads without prefix also a size one too large and a follower.
\* bodies that are not built as messages: every byte string up to MaxRaw
MaxRaw == 4
RawBytes == {0, 1, 3, 255}
RawBodies == UNION {[1..n -> RawBytes] : n \in 0..MaxRaw}

RbspFamily ==
  RawBodies \cup
  {Message(x.typ, x.prefix \o x.tail, x.extra) \o x.follower :
     x \in {y \in [typ : TypeBytes, prefix : Prefixes, tail : Tails,
                   extra : 0..1, follower : Followers] :
              y.prefix = <<>> \/ (y.extra = 0 /\ y.follower = <<>>)}}

InitSei ==
  /\ sei_rbsp \in RbspFamily
  /\ sei_stage = "start"
  /\ sei_data = <<>>
  /\ sei_msgs = <<>>
  /\ sei_next = 0
  /\ sei_out = <<>>
  /\ sei_last = NoResolve
  /\ traks = <<>>
  /\ file = <<>>
  /\ ExtractorClosed
  /\ WalkIdle
  /\ StreamIdle

\* parse_sei_messages(rbsp): the cleaned body and the messages scanned
SeiScan ==
  /\ sei_stage = "start"
  /\ sei_data' = remove_emulation_prevention(sei_rbsp)
  /\ sei_msgs' = parse_sei_messages(sei_rbsp)
  /\ sei_stage' = "resolve"
  /\ UNCHANGED <<sei_rbsp, sei_next, sei_out, sei_last, extVars, walkVars, streamVars>>

\* message m resolved to r
SeiResolved(m, r) ==
  /\ sei_out' = PushSome(sei_out, r)
  /\ sei_last' = [kind |-> "resolved", typ |-> m.typ, payload |-> m.payload,
                  cands |-> Candidates(m.typ, m.payload), res |-> r]

\* one turn of `for (pt, pl) in parse_sei_messages(rbsp)`
SeiResolve ==
  /\ sei_stage = "resolve"
  /\ sei_next < Len(sei_msgs)
  /\ SeiResolved(sei_msgs[sei_next + 1],
                 try_decode_sei_metadata_from_payload(sei_msgs[sei_next + 1].typ,
                                                      sei_msgs[sei_next + 1].payload))
  /\ sei_next' = sei_next + 1
  /\ UNCHANGED <<sei_rbsp, sei_stage, sei_data, sei_msgs, extVars, walkVars, streamVars>>

\* the loop over the messages ends
SeiFinish ==
  /\ sei_stage = "resolve"
  /\ sei_next = Len(sei_msgs)
  /\ sei_stage' = "done"
  /\ UNCHANGED <<sei_rbsp, sei_data, sei_msgs, sei_next, sei_out, sei_last,
                 extVars, walkVars, streamVars>>

NextSei == SeiScan \/ SeiResolve \/ SeiFinish

SpecSei == InitSei /\ [][NextSei]_vars

\* ------------- async_extract.rs: stream_from_reader_from_sample
\* A worker thread opens the extractor, seeks to start_sample and sends the
\* items of the iteration over a bounded channel; the consumer receives
\* them, or drops the stream.

MaxStreamSamples == 2
MaxBuffer == 2
MaxStart == 1
\* how many items the histories sent and recvd keep
MaxItems == 4

StreamInputs ==
  {p \in Inputs : /\ p.shape \in {"main", "no_trak"}
                  /\ p.codec = Avc1
                  /\ p.spc = 1
                  /\ Len(p.blobs) <= MaxStreamSamples}

InitStream ==
  /\ \E p \in StreamInputs :
       /\ traks = TraksOf(p.shape, p.blobs, p.spc, p.codec)
       /\ file = FileOf(p.blobs, p.cut)
  /\ buffer \in 0..MaxBuffer
  /\ start_sample \in 0..MaxStart
  /\ worker = "open"
  /\ item = NoItem
  /\ chan = <<>>
  /\ rx = "open"
  /\ sent = <<>>
  /\ recvd = <<>>
  /\ ExtractorClosed
  /\ WalkIdle
  /\ SeiIdle

\* mpsc::channel(buffer.max(1))
Capacity == Max(buffer, 1)

Record(history, x) == IF Len(history) < MaxItems THEN Append(history, x) ELSE history

\* `match extractor_from_reader(reader)`: an error is sent as the last item;
\* a panic ends the thread
WorkerOpen ==
  /\ worker = "open"
  /\ \E overflow_checks \in BOOLEAN :
       Opened(extractor_from_reader(traks, overflow_checks))
  /\ worker' = CASE last'.res = "Ok" -> "seek"
                 [] last'.res = "Err" -> "send_last"
                 [] OTHER -> "done"
  /\ item' = IF last'.res = "Err" THEN ErrItem(last'.err) ELSE NoItem
  /\ UNCHANGED <<inputVars, walkVars, seiVars,
                 buffer, start_sample, chan, rx, sent, recvd>>

\* `if let Err(err) = extractor.seek_sample(start_sample)`
WorkerSeek ==
  /\ worker = "seek"
  /\ SeekReturns(start_sample)
  /\ worker' = IF last'.res = "Ok" THEN "iter" ELSE "send_last"
  /\ item' = IF last'.res = "Ok" THEN NoItem ELSE ErrItem(last'.err)
  /\ UNCHANGED <<inputVars, phase, sample_sizes, sample_offsets, codec,
                 walkVars, seiVars, buffer, start_sample, chan, rx, sent, recvd>>

\* one turn of `for item in &mut extractor`: Iterator::next; None ends the
\* loop and the thread
WorkerNext(fail_at) ==
  /\ worker = "iter"
  /\ NextReturns(read_next_sample_into_pending(fail_at))
  /\ worker' = IF last'.res = "End" THEN "done" ELSE "send"
  /\ item' = CASE last'.res = "Event" -> OkItem(last'.events[1])
               [] last'.res = "Err" -> ErrItem(last'.err)
               [] OTHER -> NoItem
  /\ UNCHANGED <<inputVars, phase, sample_sizes, sample_offsets, codec, anchor,
                 walkVars, seiVars, buffer, start_sample, chan, rx, sent, recvd>>

\* mutant: the channel takes every item
SendAccepts_Always == TRUE

\* blocking_send waits until the channel has room
SendAccepts == Len(chan) < Capacity

\* mutant: a send that failed does not end the loop
AfterSend_KeepsGoing(delivered) ==
  IF worker = "send" THEN "iter" ELSE "done"

\* after blocking_send returned: `if tx.blocking_send(item).is_err() { break; }`
\* in the loop; `let _ = tx.blocking_send(Err(err)); return;` before it
AfterSend(delivered) ==
  IF worker = "send" /\ delivered THEN "iter" ELSE "done"

\* tx.blocking_send(item): fails once the receiver is gone
WorkerSend ==
  /\ worker \in {"send", "send_last"}
  /\ IF rx # "open"
     THEN /\ worker' = AfterSend(FALSE)
          /\ UNCHANGED <<chan, sent>>
     ELSE /\ SendAccepts
          /\ chan' = Append(chan, item)
          /\ sent' = Record(sent, item)
          /\ worker' = AfterSend(TRUE)
  /\ item' = NoItem
  /\ UNCHANGED <<extVars, walkVars, seiVars, buffer, start_sample, rx, recvd>>

\* the consumer takes the oldest item of the channel
ConsumerRecv ==
  /\ rx = "open"
  /\ Len(chan) > 0
  /\ recvd' = Record(recvd, Head(chan))
  /\ chan' = Tail(chan)
  /\ UNCHANGED <<extVars, walkVars, seiVars,
                 buffer, start_sample, worker, item, rx, sent>>

\* the stream ends: the channel is empty and the sender is gone
ConsumerEnd ==
  /\ rx = "open"
  /\ Len(chan) = 0
  /\ worker = "done"
  /\ rx' = "ended"
  /\ UNCHANGED <<extVars, walkVars, seiVars,
                 buffer, start_sample, worker, item, chan, sent, recvd>>

\* the consumer drops the stream, and with it the items not yet received
ConsumerDrop ==
  /\ rx = "open"
  /\ rx' = "dropped"
  /\ chan' = <<>>
  /\ UNCHANGED <<extVars, walkVars, seiVars,
                 buffer, start_sample, worker, item, sent, recvd>>

\* The worker can take a step: it has not returned and is not waiting for
\* room in the channel
WorkerReady ==
  \/ worker \in {"open", "seek", "iter"}
  \/ worker \in {"send", "send_last"} /\ (rx # "open" \/ SendAccepts)

\* A step of the worker: WorkerOpen, WorkerSeek, WorkerNext and WorkerSend
\* are the steps that move `worker`, and each of them does
WorkerStep == worker' # worker

\* Weak fairness of the worker's steps: it is not ready forever without
\* taking one
WorkerFair == []<>(~WorkerReady) \/ []<><<WorkerStep>>_vars

NextStream ==
  \/ WorkerOpen
  \/ WorkerSeek
  \/ \E fail_at \in 0..TotalSamples : WorkerNext(fail_at)
  \/ WorkerSend
  \/ ConsumerRecv
  \/ ConsumerEnd
  \/ ConsumerDrop

\* the worker is a thread of its own (spawn_blocking): it takes its steps
SpecStream == InitStream /\ [][NextStream]_vars /\ WorkerFair

\* ============================================================ claims

IsPrefix(a, b) == Len(a) <= Len(b) /\ a = SubSeq(b, 1, Len(a))

\* The events sample i (0-based) holds: its records in decode order, each
\* with the sample's index and its entry of the offset table.
SampleEvents(i) ==
  IF CanRead(At(sample_offsets, i), At(sample_sizes, i))
  THEN LET decoded == decode_sei_from_sample(
                        codec, ReadExact(At(sample_offsets, i), At(sample_sizes, i)))
       IN [k \in 1..Len(decoded) |->
             [sample_index |-> i, file_offset |-> At(sample_offsets, i),
              metadata |-> decoded[k]]]
  ELSE <<>>

\* the events of samples k, k+1, ..., total-1 in that order
RECURSIVE ExpectedFrom(_)
ExpectedFrom(k) ==
  IF k >= TotalSamples THEN <<>> ELSE SampleEvents(k) \o ExpectedFrom(k + 1)

\* C1: from open or a successful seek(k), while no next has failed, the
\* events next has returned are, one per call, a prefix of the events of
\* samples k..total-1 in index and decode order (samples without a record
\* contribute none), a next never reports an error, and next reports
\* end-of-stream exactly when all of them have been returned.
C1_SequentialNext ==
  (phase = "open" /\ clean) =>
    /\ IsPrefix(emitted, ExpectedFrom(anchor))
    /\ last.op = "next" => last.res \in {"Event", "End"}
    /\ (last.op = "next" /\ last.res = "Event") =>
         /\ Len(last.events) = 1
         /\ Len(emitted) > 0
         /\ last.events[1] = emitted[Len(emitted)]
    /\ (last.op = "next" /\ last.res = "End") => emitted = ExpectedFrom(anchor)

\* three samples, one of them without a record, drained to end-of-stream
C1_Witness ==
  /\ phase = "open" /\ clean /\ anchor = 0 /\ TotalSamples = 3
  /\ last.op = "next" /\ last.res = "End"
  /\ Len(emitted) = 4

\* C2: a seek to any k in 0..total succeeds, leaves the pending queue empty
\* and the next sample index at k; and after a seek to total every next
\* reports end-of-stream without reading the source.
C2_SeekInRange ==
  /\ (phase = "open" /\ last.op = "seek" /\ last.arg <= TotalSamples) =>
       /\ last.res = "Ok"
       /\ pending = <<>>
       /\ next_sample_index = last.arg
  /\ (phase = "open" /\ anchor = TotalSamples /\ last.op = "next") =>
       /\ last.res = "End"
       /\ last.io = <<>>

\* a next after seek(total) on three samples
C2_Witness ==
  /\ phase = "open" /\ TotalSamples = 3 /\ anchor = TotalSamples
  /\ last.op = "next" /\ last.res = "End"

\* C3: seek(i) with i > total and read_at(i) with i >= total fail with
\* SampleIndexOutOfRange carrying i and total, and issue no read.
C3_OutOfRange ==
  (phase = "open"
     /\ \/ last.op = "seek" /\ last.arg > TotalSamples
        \/ last.op = "read_at" /\ last.arg >= TotalSamples) =>
    /\ last.res = "Err"
    /\ last.err = [kind |-> "SampleIndexOutOfRange", sample_index |-> last.arg,
                   total_samples |-> TotalSamples]
    /\ last.io = <<>>

\* seek(total + 1) refused while records are pending
C3_Witness ==
  /\ phase = "open" /\ TotalSamples >= 2
  /\ last.op = "seek" /\ last.arg = TotalSamples + 1 /\ last.res = "Err"
  /\ pending # <<>>

\* what read_at returned is what sample last.arg holds
ReadAtReturnsSample ==
  (phase = "open" /\ last.op = "read_at" /\ last.res = "Ok") =>
    /\ last.arg < TotalSamples
    /\ last.events = SampleEvents(last.arg)
    /\ \A k \in 1..Len(last.events) :
         /\ last.events[k].sample_index = last.arg
         /\ last.events[k].file_offset = At(sample_offsets, last.arg)

\* a read_at step leaves the cursor and the events next returned alone
ReadAtKeepsCursor ==
  (last'.op = "read_at") => UNCHANGED <<cursorVars, emitted, anchor, clean>>

\* C4: read_at(i), i < total, returns all events of sample i with index i and
\* its offset; succeeding or failing, it leaves next sample index, pending
\* queue and pending index/offset as they were, so that the events of later
\* next calls are those of the sequence without the read_at.
C4_ReadAtFrame ==
  /\ [](ReadAtReturnsSample)
  /\ []((phase = "open" /\ clean) => IsPrefix(emitted, ExpectedFrom(anchor)))
  /\ [][ReadAtKeepsCursor]_vars

\* a read_at of another sample while the records of one are being drained
C4_Witness ==
  /\ phase = "open" /\ last.op = "read_at" /\ last.res = "Ok"
  /\ Len(last.events) = 2
  /\ Len(pending) = 1
  /\ last.arg # pending_sample_index

\* ---- the container as the claims see it

\* the handler of a track box: that of its last handler box
RECURSIVE LastHandler(_, _)
LastHandler(children, k) ==
  IF k = 0 THEN "none"
  ELSE IF children[k].box = "hdlr" THEN children[k].handler
  ELSE LastHandler(children, k - 1)

\* the last media-information box of a track box that parsed: its index or 0
RECURSIVE LastMinf(_, _)
LastMinf(children, k) ==
  IF k = 0 THEN 0
  ELSE IF children[k].box = "minf" /\ children[k].res # "err" THEN k
  ELSE LastMinf(children, k - 1)

IsVideo(trak) == trak.has_mdia /\ LastHandler(trak.mdia, Len(trak.mdia)) = "vide"

HasTables(trak) ==
  /\ trak.has_mdia
  /\ LastMinf(trak.mdia, Len(trak.mdia)) # 0
  /\ trak.mdia[LastMinf(trak.mdia, Len(trak.mdia))].res = "ok"

TablesOfTrak(trak) == trak.mdia[LastMinf(trak.mdia, Len(trak.mdia))].tables

\* the walk of the track boxes meets no box it rejects, and no video track
\* whose media-information box failed to parse
WalkSucceeds ==
  \A k \in 1..Len(traks) :
    traks[k].has_mdia =>
      /\ \A j \in 1..Len(traks[k].mdia) : traks[k].mdia[j].box # "bad"
      /\ IsVideo(traks[k]) =>
           \A j \in 1..Len(traks[k].mdia) :
             ~(traks[k].mdia[j].box = "minf" /\ traks[k].mdia[j].res = "err")

\* the tables of the video tracks that have a sample table
VideoTables == {TablesOfTrak(traks[k]) : k \in {j \in 1..Len(traks) :
                                                 IsVideo(traks[j]) /\ HasTables(traks[j])}}

\* C6: an opened extractor has as many offsets as the selected track has
\* sample sizes, in every state any sequence of calls reaches; and whenever
\* the reconstruction of the selected track gives another count, open failed
\* with InconsistentSampleTables carrying the three counts and there is no
\* extractor.
C6_OffsetCount ==
  /\ phase = "open" =>
       /\ Len(sample_offsets) = Len(sample_sizes)
       /\ \E t \in VideoTables :
            /\ t.sample_sizes = sample_sizes
            /\ Len(SampleOffsetsOf(t)) = Len(t.sample_sizes)
            /\ TotalSamples = Len(t.sample_sizes)
  /\ (phase # "closed" /\ WalkSucceeds /\ VideoTables # {}) =>
       \A t \in VideoTables :
         (/\ \A u \in VideoTables \ {t} : Len(u.sample_sizes) < Len(t.sample_sizes)
          /\ Len(SampleOffsetsOf(t)) # Len(t.sample_sizes)) =>
           /\ phase = "failed"
           /\ last.op = "open" /\ last.res = "Err"
           /\ last.err = [kind |-> "Mp4InconsistentSampleTables",
                          sample_sizes |-> Len(t.sample_sizes),
                          sample_offsets |-> Len(SampleOffsetsOf(t)),
                          chunk_offsets |-> Len(t.chunk_offsets)]

\* open refused a track of three samples whose run table yields no offset
C6_Witness ==
  /\ phase = "failed"
  /\ last.err = [kind |-> "Mp4InconsistentSampleTables", sample_sizes |-> 3,
                 sample_offsets |-> 0, chunk_offsets |-> 3]

TheTables == traks[1].mdia[2].tables

RECURSIVE SumTo(_, _)
\* f[1] + ... + f[k]
SumTo(f, k) == IF k = 0 THEN 0 ELSE f[k] + SumTo(f, k - 1)

\* 0-based index of the first sample of chunk c (1-based) under counts cs
FirstSampleOf(cs, c) == SumTo(cs, c - 1)

\* offs follows the rule for sample s (0-based) of tables t under counts cs:
\* the first sample of a chunk lies at the chunk's offset, every other
\* sample at the previous sample's offset plus the previous sample's size
OffsetRuleAt(t, cs, offs, s) ==
  \E c \in 1..Len(t.chunk_offsets) :
    /\ FirstSampleOf(cs, c) <= s
    /\ s < FirstSampleOf(cs, c) + cs[c]
    /\ IF s = FirstSampleOf(cs, c)
       THEN At(offs, s) = t.chunk_offsets[c]
       ELSE At(offs, s) = At(offs, s - 1) + At(t.sample_sizes, s - 1)

ExampleTables ==
  [sample_sizes |-> <<100, 120, 90>>,
   chunk_offsets |-> <<1000, 5000>>,
   stsc |-> <<[first_chunk |-> 1, samples_per_chunk |-> 2],
              [first_chunk |-> 2, samples_per_chunk |-> 1]>>,
   codec |-> Avc1]

\* C5: with the per-chunk sample counts given, an opened extractor holds one
\* offset per sample: the first sample of each chunk at the chunk's offset,
\* every later sample of the chunk at the previous offset plus the previous
\* size; sizes [100,120,90], chunk offsets [1000,5000] and runs
\* [(1,2),(2,1)] give [1000,1100,5000].
C5_OffsetWalk ==
  /\ phase = "open" =>
       /\ Len(sample_offsets) = Len(TheTables.sample_sizes)
       /\ \A s \in 0..Len(sample_offsets) - 1 :
            OffsetRuleAt(TheTables, ChunkSamples(TheTables), sample_offsets, s)
  /\ (phase = "open" /\ TheTables = ExampleTables) =>
       sample_offsets = <<1000, 1100, 5000>>

\* opened on the tables of the example
C5_Witness ==
  /\ phase = "open"
  /\ TheTables = ExampleTables
  /\ sample_offsets = <<1000, 1100, 5000>>

\* ---- the box walk

\* bytes left of the open ranges, plus one for each open range
RECURSIVE StackWeight(_, _)
StackWeight(stack, k) ==
  IF k = 0 THEN 0
  ELSE Max(stack[k].limit - stack[k].pos, 0) + 1 + StackWeight(stack, k - 1)

\* an iteration ran only with 8 bytes left of its range, and a loop ended
\* only with fewer
IteratesWithHeader ==
  /\ wlast.kind \in {"box", "invalid", "io"} => wlast.start + 8 <= wlast.limit
  /\ wlast.kind = "end" => wlast.start + 8 > wlast.limit

\* a box that was yielded ends behind its start and within the limit
YieldedBoxAdvances ==
  wlast.kind = "box" =>
    /\ wlast.start < wlast.end
    /\ wlast.end <= wlast.limit
    /\ wlast.hdr.size = 0 => wlast.end = wlast.limit
    /\ wlast.start + wlast.hdr.size > wlast.limit => wlast.end = wlast.limit
    /\ (wlast.hdr.size # 0 /\ wlast.start + wlast.hdr.size <= wlast.limit) =>
         wlast.end = wlast.start + wlast.hdr.size

\* C7: the walk of a range terminates whatever the range holds: an iteration
\* runs only while 8 bytes are left and otherwise the loop ends; it fails or
\* yields a box with start < end <= limit (size 0 ends at the limit, an
\* overlong box is clamped to it); every step shrinks what is left of the
\* open ranges; and the walk comes to its end.
C7_WalkTerminates ==
  /\ [](IteratesWithHeader /\ YieldedBoxAdvances)
  /\ [][StackWeight(wstack', Len(wstack')) < StackWeight(wstack, Len(wstack))]_vars
  /\ <>(wstatus # "walking")

\* an overlong box inside a media box was yielded, clamped to the limit
C7_Witness ==
  /\ wlast.kind = "box" /\ wlast.ctx = "mdia"
  /\ wlast.hdr.size = 500
  /\ wlast.end = wlast.limit
  /\ wlast.start + 8 = wlast.limit

\* the size of the box of the last iteration, 0 taken as what is left
ResolvedSize ==
  IF wlast.hdr.size = 0 THEN Max(wlast.limit - wlast.start, 0) ELSE wlast.hdr.size

\* C8: a box whose size (0 taken as the bytes left up to the limit) is below
\* its header length, 8 or 16, or whose end would not lie behind its start,
\* is not yielded: the walk of its range fails with Mp4InvalidBox carrying
\* the context, the tag and the offset of the box; the error ends open,
\* except that parse_mdia keeps an error of the ranges below it.
C8_MalformedBox ==
  /\ wlast.kind \in {"box", "invalid"} =>
       /\ wlast.hdr.header_len \in {8, 16}
       /\ wlast.hdr.header_len = 8 => wlast.hdr.size # 1
  /\ (/\ wlast.kind \in {"box", "invalid"}
      /\ \/ ResolvedSize < wlast.hdr.header_len
         \/ Min(wlast.start + ResolvedSize, wlast.limit) <= wlast.start) =>
       /\ wlast.kind = "invalid"
       /\ wlast.err.kind = "Mp4InvalidBox"
       /\ wlast.err.context = wlast.ctx
       /\ wlast.err.box_type = wlast.hdr.typ
       /\ wlast.err.offset = wlast.start
  /\ wlast.kind = "box" =>
       /\ ResolvedSize >= wlast.hdr.header_len
       /\ wlast.end > wlast.start
  /\ wlast.kind = "invalid" =>
       IF wlast.ctx \in {"minf", "stbl"}
       THEN /\ wstatus = "walking"
            /\ TopFrame.ctx = "mdia"
            /\ TopFrame.minf_err
       ELSE wstatus = "failed" /\ wstack = <<>>

\* a largesize box of 8 bytes, less than its header, inside a track box
C8_Witness ==
  /\ wlast.kind = "invalid" /\ wlast.ctx = "trak"
  /\ wlast.hdr.header_len = 16
  /\ wlast.hdr.size = 8
  /\ wlast.start > 0
  /\ wstatus = "failed"

\* ---- the payload resolver

\* the slices of payload the candidates cands stand for, each with the
\* slice that drops a final 0x80
AttemptedSlices(payload, cands) ==
  UNION {{DecodeAttempts(CandBytes(payload, cands[k]))[j] :
            j \in 1..Len(DecodeAttempts(CandBytes(payload, cands[k])))} :
         k \in 1..Len(cands)}

NonDefault(msg) == ~(msg.version = 0 /\ msg.frame_seq_no = 0)

\* the statement of C10 as it stands: a message of a type other than 5
\* yields no event
C10_OnlyTypeFive ==
  (sei_last.kind = "resolved" /\ sei_last.typ # TypeUserDataUnregistered) =>
    ~sei_last.res.some

\* C10 (amended): for a message whose type is not 5 the candidates after a
\* 0x42..0x69 marker and after a 16-byte UUID are not used: every candidate
\* is the whole payload or a suffix starting at a 0x08 byte within the first
\* 64 bytes; the message yields an event exactly when one of these slices,
\* or one without its final 0x80, decodes to a record that is not
\* all-default, and the event is such a record.
C10_TypeGate ==
  (sei_last.kind = "resolved" /\ sei_last.typ # TypeUserDataUnregistered) =>
    /\ \A k \in 1..Len(sei_last.cands) :
         \/ sei_last.cands[k].start = 0
         \/ /\ sei_last.cands[k].start < ScanWindow
            /\ At(sei_last.payload, sei_last.cands[k].start) = 8
    /\ \A k \in 1..Len(sei_last.cands) :
         sei_last.cands[k].start + sei_last.cands[k].len = Len(sei_last.payload)
    /\ sei_last.res.some <=>
         \E a \in AttemptedSlices(sei_last.payload, sei_last.cands) :
           PbDecode(a).ok /\ NonDefault(PbDecode(a).msg)
    /\ sei_last.res.some =>
         \E a \in AttemptedSlices(sei_last.payload, sei_last.cands) :
           /\ PbDecode(a).ok
           /\ NonDefault(PbDecode(a).msg)
           /\ sei_last.res.msg = PbDecode(a).msg

\* a message of type 4 whose payload holds a record behind 16 other bytes
\* yields an event
C10_Witness ==
  /\ sei_last.kind = "resolved"
  /\ sei_last.typ = 4
  /\ Len(sei_last.payload) > 16
  /\ sei_last.res.some
  /\ sei_last.res.msg.version = 1
  /\ Len(sei_out) = 1

\* C11: after duplicate removal no candidate (start, length) occurs twice in
\* the candidate list of a payload.
C11_NoDuplicateCandidates ==
  sei_last.kind = "resolved" =>
    \A j, k \in 1..Len(sei_last.cands) :
      sei_last.cands[j] = sei_last.cands[k] => j = k

\* C12: no record with version = 0 and frame_seq_no = 0 is pushed for a
\* sample: the resolver returns a record only if it is not all-default and
\* decoded from a non-empty slice it attempted; an all-default decode does
\* not end the resolution, which returns a record exactly when some
\* attempted slice decodes to one that is not all-default; otherwise the
\* payload yields nothing.
C12_NoDefaultRecord ==
  /\ \A k \in 1..Len(sei_out) : NonDefault(sei_out[k])
  /\ Len(sei_out) <= sei_next
  /\ sei_last.kind = "resolved" =>
       /\ sei_last.res.some =>
            /\ NonDefault(sei_last.res.msg)
            /\ Len(sei_out) > 0
            /\ sei_out[Len(sei_out)] = sei_last.res.msg
            /\ \E a \in AttemptedSlices(sei_last.payload, sei_last.cands) :
                 /\ Len(a) > 0
                 /\ PbDecode(a).ok
                 /\ PbDecode(a).msg = sei_last.res.msg
       /\ sei_last.res.some <=>
            \E a \in AttemptedSlices(sei_last.payload, sei_last.cands) :
              Len(a) > 0 /\ PbDecode(a).ok /\ NonDefault(PbDecode(a).msg)

\* the slice behind the 16 bytes decodes to an all-default record, is
\* rejected, and the whole payload then resolves
C12_Witness ==
  /\ sei_last.kind = "resolved"
  /\ sei_last.typ = TypeUserDataUnregistered
  /\ Len(sei_last.cands) >= 2
  /\ sei_last.cands[1].start = 16
  /\ PbDecode(CandBytes(sei_last.payload, sei_last.cands[1])).ok
  /\ ~NonDefault(PbDecode(CandBytes(sei_last.payload, sei_last.cands[1])).msg)
  /\ sei_last.res.some
  /\ sei_last.res.msg = [version |-> 0, frame_seq_no |-> 7]

\* the positions (from 1) of the 0x03 bytes directly behind two 0x00 bytes
EmulationBytes(rbsp) ==
  {i \in 3..Len(rbsp) : rbsp[i] = 3 /\ rbsp[i - 1] = 0 /\ rbsp[i - 2] = 0}

\* C13: emulation-prevention removal drops exactly the 0x03 bytes that
\* directly follow two or more consecutive 0x00 bytes; every other byte is
\* kept, in its original order; the output is never longer than the input.
C13_EmulationPrevention ==
  sei_stage # "start" =>
    /\ Len(sei_data) <= Len(sei_rbsp)
    /\ Len(sei_data) = Len(sei_rbsp) - Cardinality(EmulationBytes(sei_rbsp))
    /\ \A i \in (1..Len(sei_rbsp)) \ EmulationBytes(sei_rbsp) :
         sei_data[i - Cardinality({j \in EmulationBytes(sei_rbsp) : j < i})]
           = sei_rbsp[i]

\* a 0x03 behind three zero bytes has been dropped
C13_Witness ==
  /\ sei_stage # "start"
  /\ sei_rbsp = <<0, 0, 0, 3>>
  /\ sei_data = <<0, 0, 0>>

\* C14: with the codec Unknown nothing is extracted: read_at of a valid
\* index returns an empty list (or the read's I/O error), and next emits no
\* event: it reports the end of the stream (or a read's I/O error).
C14_UnknownCodec ==
  (phase = "open" /\ codec.kind = "Unknown") =>
    /\ emitted = <<>>
    /\ pending = <<>>
    /\ last.events = <<>>
    /\ last.op = "read_at" /\ ReadAccepts(last.arg) =>
         \/ last.res = "Ok"
         \/ last.res = "Err" /\ last.err = IoError
    /\ last.op = "read_at" /\ last.res = "Err" /\ last.err = IoError =>
         ReadAccepts(last.arg)
    /\ last.op = "next" =>
         \/ last.res = "End"
         \/ last.res = "Err" /\ last.err = IoError

\* next has read a sample whose SEI unit holds two records, under 4-byte
\* NAL lengths, and reports the end of the stream
C14_Witness ==
  /\ phase = "open"
  /\ codec.kind = "Unknown"
  /\ last.op = "next"
  /\ last.res = "End"
  /\ emitted = <<>>
  /\ \E k \in 1..Len(last.io) :
       ReadExact(last.io[k][1], last.io[k][2]) = <<0, 0, 0>> \o BlobTwo

\* C15: the first error is a terminal event of the stream: once an error
\* item (from open, from the start seek or from the iteration) has been
\* sent, the worker sends no further item.
C15_FirstErrorTerminal ==
  \A k \in 1..Len(sent) : ~sent[k].ok => k = Len(sent)

\* the events of the Ok items of a sequence of items, in order
OkEvents(items) ==
  LET oks == SelectSeq(items, LAMBDA x : x.ok)
  IN [k \in 1..Len(oks) |-> oks[k].ev]

\* the item the worker holds for sending
Held == IF worker \in {"send", "send_last"} THEN <<item>> ELSE <<>>

\* C16: the channel holds at most max(buffer, 1) items not yet received;
\* while it is full the worker's send does not proceed, and no item is
\* dropped or overwritten: the items received followed by the items queued
\* are the items sent; the items reach the consumer in the order in which
\* the extractor's next produced them.
C16_BoundedQueue ==
  worker # "idle" =>
    /\ Len(chan) <= Max(buffer, 1)
    /\ (rx = "open" /\ Len(chan) = Max(buffer, 1)) => ~ENABLED WorkerSend
    /\ (rx = "open" /\ Len(chan) < Max(buffer, 1) /\ Len(Held) = 1) =>
         ENABLED WorkerSend
    /\ (rx = "open" /\ Len(sent) < MaxItems) => sent = recvd \o chan
    /\ IsPrefix(recvd, sent)
    /\ (rx = "open" /\ Len(sent) < MaxItems /\ phase = "open") =>
         OkEvents(sent \o Held) = emitted
    /\ IsPrefix(OkEvents(recvd), emitted)

\* the channel of two is full, the worker waits with a fourth item
C16_Witness ==
  /\ rx = "open"
  /\ buffer = 2
  /\ Len(chan) = 2
  /\ worker = "send"
  /\ Len(recvd) = 1
  /\ item.ok
  /\ ~ENABLED WorkerSend

\* C17: after the consumer dropped the stream the worker eventually stops
\* (its thread returns, which drops the extractor and its reader): nothing
\* is sent after the drop, the first send attempted after it fails and the
\* worker leaves its loop at once, without another read, whenever the drop
\* falls among the worker's steps; a worker that stopped does nothing more.
C17_DropStopsWorker ==
  /\ (rx = "dropped") ~> (worker = "done")
  /\ [][rx = "dropped" => (sent' = sent /\ chan' = <<>>)]_vars
  /\ [][(rx = "dropped" /\ worker \in {"send", "send_last"}) =>
          (worker' = "done" /\ UNCHANGED extVars)]_vars
  /\ [][worker = "done" => UNCHANGED <<worker, item, extVars>>]_vars

\* the worker has stopped on a failed send with a sample still unread
C17_Witness ==
  /\ rx = "dropped"
  /\ worker = "done"
  /\ last.op = "next"
  /\ last.res = "Event"
  /\ next_sample_index < TotalSamples
  /\ Len(sent) >= 1

\* C18: a failure of next or of read_at invalidates the extractor: the call
\* that follows it on the same instance, be it next, seek or read_at,
\* neither succeeds nor produces an event.
C18_FailureInvalidates ==
  [][(last.op \in {"next", "read_at"} /\ last.res = "Err" /\ last.err = IoError) =>
       last'.res \notin {"Ok", "Event"}]_vars

\* the extension coding of n: n \div 255 bytes 0xFF, then n % 255
ExtCode(n) == [k \in 1..(n \div 255) |-> 255] \o <<n % 255>>

\* the bytes of a message: type, size, payload
MessageBytes(m) == ExtCode(m.typ) \o ExtCode(Len(m.payload)) \o m.payload

\* the bytes of the first k messages of msgs
ScannedBytes(msgs, k) == Concat([j \in 1..k |-> MessageBytes(msgs[j])])

\* rest begins with a whole message: a type of n + 1 bytes, a size of m + 1
\* bytes and as many payload bytes as the size says
StartsWithMessage(rest) ==
  \E n, m \in 0..Len(rest) :
    /\ n + m + 2 <= Len(rest)
    /\ \A k \in 1..n : rest[k] = 255
    /\ rest[n + 1] # 255
    /\ \A k \in (n + 2)..(n + m + 1) : rest[k] = 255
    /\ rest[n + m + 2] # 255
    /\ n + m + 2 + 255 * m + rest[n + m + 2] <= Len(rest)

\* C19: the scan of a cleaned body yields its messages in order, type and
\* size each coded as a run of 0xFF bytes (255 each) and a final byte: the
\* messages' bytes, one after the other, are the body's beginning.  After
\* every message but the last at least 2 bytes remained; the scan ended,
\* yielding what it had, with at most 1 byte left behind a message, or at
\* bytes that do not hold a whole message (the size exceeds what remains).
C19_MessageScan ==
  sei_stage # "start" =>
    /\ IsPrefix(ScannedBytes(sei_msgs, Len(sei_msgs)), sei_data)
    /\ \A k \in 1..(Len(sei_msgs) - 1) :
         Len(sei_data) - Len(ScannedBytes(sei_msgs, k)) >= 2
    /\ \/ Len(sei_msgs) > 0 /\
          Len(sei_data) - Len(ScannedBytes(sei_msgs, Len(sei_msgs))) <= 1
       \/ ~StartsWithMessage(From(sei_data,
                                  Len(ScannedBytes(sei_msgs, Len(sei_msgs)))))

\* FF FF 05 was read as type 515; the byte behind the message is not scanned
C19_Witness ==
  /\ sei_stage # "start"
  /\ sei_data = <<255, 255, 5, 2, 8, 1, 128>>
  /\ sei_msgs = <<[typ |-> 515, payload |-> <<8, 1>>]>>

\* the runs of t whose chunk range holds chunk c (1-based)
RunsOver(t, c) ==
  {i \in 1..Len(t.stsc) : t.stsc[i].first_chunk <= c /\ c < NextFirst(t, i)}

\* the count the run table gives chunk c: that of the last run over it
RunCount(t, c) ==
  IF RunsOver(t, c) = {} THEN 0
  ELSE t.stsc[CHOOSE i \in RunsOver(t, c) : \A j \in RunsOver(t, c) : j <= i]
         .samples_per_chunk

\* the chunks up to c to which the run table gives samples
CountedUpTo(t, c) == {d \in 1..c : RunCount(t, d) # 0}

\* the count of the nearest chunk up to c that has one, or 0
NearestCount(t, c) ==
  IF CountedUpTo(t, c) = {} THEN 0
  ELSE RunCount(t, CHOOSE d \in CountedUpTo(t, c) : \A e \in CountedUpTo(t, c) : e <= d)

FilledCounts(t) == [c \in 1..Len(t.chunk_offsets) |-> NearestCount(t, c)]

\* C20: the run table is expanded into one count per chunk offset (chunk c
\* in slot c - 1 of the source's array), and every chunk left at zero takes
\* the nearest preceding non-zero count, whatever the order of the runs; a
\* zero chunk with none before it stays zero and gets no sample.  Open
\* walks the chunks under these counts.
C20_ZeroFill ==
  (last.op = "open" /\ last.res # "Panic") =>
    /\ ExpandedChunkSamples(TheTables)
         = [c \in 1..Len(TheTables.chunk_offsets) |-> RunCount(TheTables, c)]
    /\ ChunkSamples(TheTables) = FilledCounts(TheTables)
    /\ IF SumTo(FilledCounts(TheTables), Len(TheTables.chunk_offsets))
            >= Len(TheTables.sample_sizes)
       THEN /\ phase = "open"
            /\ Len(sample_offsets) = Len(TheTables.sample_sizes)
            /\ \A s \in 0..Len(sample_offsets) - 1 :
                 OffsetRuleAt(TheTables, FilledCounts(TheTables), sample_offsets, s)
       ELSE /\ phase = "failed"
            /\ last.err.kind = "Mp4InconsistentSampleTables"
            /\ last.err.sample_offsets
                 = SumTo(FilledCounts(TheTables), Len(TheTables.chunk_offsets))

\* the third chunk, left at zero by its run, took the second chunk's count
C20_Witness ==
  /\ phase = "open"
  /\ TheTables.stsc = <<[first_chunk |-> 1, samples_per_chunk |-> 1],
                        [first_chunk |-> 2, samples_per_chunk |-> 2],
                        [first_chunk |-> 3, samples_per_chunk |-> 0]>>
  /\ sample_offsets = <<1000, 5000, 5120, 9000, 9100>>

\* the event carries the index and the offset of a sample of the track, and
\* a record decoded from that sample's bytes
EventOfItsSample(e) ==
  /\ e.sample_index \in 0..TotalSamples - 1
  /\ e.file_offset = At(sample_offsets, e.sample_index)
  /\ CanRead(e.file_offset, At(sample_sizes, e.sample_index))
  /\ \E k \in 1..Len(SampleEvents(e.sample_index)) :
       SampleEvents(e.sample_index)[k] = e

\* C21: on an opened extractor, after any calls of next, seek and read_at:
\* 0 <= next_sample_index <= total samples; while records are pending,
\* pending_sample_index = next_sample_index - 1 and pending_offset is the
\* offset table's entry of that sample; every event emitted carries the
\* index and offset of the sample its record was decoded from.
C21_CursorInvariant ==
  phase = "open" =>
    /\ 0 <= next_sample_index
    /\ next_sample_index <= TotalSamples
    /\ Len(pending) > 0 =>
         /\ pending_sample_index = next_sample_index - 1
         /\ pending_offset = At(sample_offsets, pending_sample_index)
         /\ \A k \in 1..Len(pending) :
              EventOfItsSample(Event(pending_sample_index, pending_offset, pending[k]))
    /\ \A k \in 1..Len(emitted) : EventOfItsSample(emitted[k])
    /\ last.op = "next" => \A k \in 1..Len(last.events) : EventOfItsSample(last.events[k])

\* the second sample's first record was emitted, its second one is pending
C21_Witness ==
  /\ phase = "open"
  /\ Len(pending) = 1
  /\ pending_sample_index = 1
  /\ next_sample_index = 2
  /\ pending_offset = At(sample_offsets, 1)
  /\ pending_offset > At(sample_offsets, 0)
  /\ last.op = "next"
  /\ last.res = "Event"
  /\ last.events[1].sample_index = 1

\* the read of the sample at the cursor: (offset, size)
CursorRead(i) == <<At(sample_offsets, i), At(sample_sizes, i)>>

\* C22: when the read of sample i fails during next, next returns the
\* error as an item, not the end of the stream, and leaves the cursor at
\* sample i with nothing pending and nothing emitted; the next call after
\* it begins with the read of sample i again; while the sample cannot be
\* read every call of next returns the error with the cursor unchanged.
C22_FailedReadKeepsCursor ==
  [][last'.op = "next" =>
       /\ last'.res = "Err" =>
            /\ last'.err = IoError
            /\ Len(pending) = 0
            /\ pending' = <<>>
            /\ UNCHANGED <<pending_offset, pending_sample_index, emitted>>
            /\ next_sample_index' < TotalSamples
            /\ next_sample_index' = next_sample_index + Len(last'.io) - 1
            /\ last'.io[Len(last'.io)] = CursorRead(next_sample_index')
       /\ (last.op = "next" /\ last.res = "Err") =>
            /\ Len(last'.io) > 0
            /\ last'.io[1] = last.io[Len(last.io)]
       /\ (/\ Len(pending) = 0
           /\ next_sample_index < TotalSamples
           /\ ~CanRead(At(sample_offsets, next_sample_index),
                       At(sample_sizes, next_sample_index))) =>
            /\ last'.res = "Err"
            /\ UNCHANGED cursorVars]_vars

\* the events of the first sample were emitted, then the read of the second
\* sample, which the source does not hold in full, failed
C22_Witness ==
  /\ phase = "open"
  /\ last.op = "next"
  /\ last.res = "Err"
  /\ next_sample_index = 1
  /\ pending = <<>>
  /\ Len(emitted) = 2
  /\ last.io = <<CursorRead(1)>>
  /\ ~CanRead(At(sample_offsets, 1), At(sample_sizes, 1))

\* C23: a successful seek(k) discards the records still pending; the events
\* next returns after it, up to the next seek, have sample indices that are
\* at least k and never decrease, and the first event next returns with
\* nothing pending comes from a read of its sample in that call, as that
\* sample's first record: a discarded record comes back only by reading its
\* sample again.
C23_SeekDiscardsPending ==
  /\ [](phase = "open" =>
          /\ \A j \in 1..Len(emitted) : emitted[j].sample_index >= anchor
          /\ \A j \in 1..(Len(emitted) - 1) :
               emitted[j].sample_index <= emitted[j + 1].sample_index)
  /\ [][(last'.op = "seek" /\ last'.res = "Ok") =>
          /\ pending' = <<>>
          /\ last'.dropped = Len(pending)
          /\ emitted' = <<>>
          /\ anchor' = last'.arg]_vars
  /\ [][(last'.op = "next" /\ last'.res = "Event" /\ Len(pending) = 0) =>
          /\ Len(last'.io) > 0
          /\ last'.io[Len(last'.io)] = CursorRead(last'.events[1].sample_index)
          /\ last'.events[1] = SampleEvents(last'.events[1].sample_index)[1]
          /\ last'.events[1].sample_index >= next_sample_index]_vars

\* a seek forward to the third sample discarded the pending second record
\* of the first sample
C23_Witness ==
  /\ phase = "open"
  /\ last.op = "seek"
  /\ last.res = "Ok"
  /\ last.arg = 2
  /\ last.dropped = 1
  /\ pending = <<>>
  /\ next_sample_index = 2
  /\ Len(SampleEvents(0)) = 2

\* ---- the payload of a yielded box

\* where the payload of the box of the last iteration starts
PayloadStart == wlast.start + wlast.hdr.header_len

\* C24: every box the walk yields inside a range [start, limit) has
\* start < payload start <= box end <= limit, the payload starting a header
\* length (8, or 16 with a largesize) behind the start of the box; so the
\* range of its children, from payload start to box end, never begins
\* behind its end, also when the box was clamped to the limit.
C24_PayloadWithinBox ==
  /\ wlast.kind = "box" =>
       /\ wlast.hdr.header_len \in {8, 16}
       /\ wlast.start < PayloadStart
       /\ PayloadStart <= wlast.end
       /\ wlast.end <= wlast.limit
  /\ \A k \in 1..Len(wstack) : wstack[k].pos <= wstack[k].limit

====
